---- MODULE Spec2Model ----
(***************************************************************************)
(* Model of the SMC trading bot's analysis path: the active-zone queries   *)
(* of smc_indicators.py, the three strategies and the StrategyManager of   *)
(* strategy.py, and the exit-level computation.                            *)
(*                                                                         *)
(* A DataFrame is a record [isNone, columns, rows]: isNone models a None   *)
(* frame, columns the set of column names present, rows the sequence of    *)
(* rows (Python position p is rows[p + 1]).  pandas NaN / Python None is   *)
(* the marker NaN; every comparison the code makes on a possibly missing   *)
(* value is modelled with the NaN-aware operators below.  Prices are       *)
(* integers; the input sets are chosen so that the *1.001, *0.999, *0.001  *)
(* and *0.01 products of the code are exact.                               *)
(***************************************************************************)
EXTENDS Integers, Sequences, FiniteSets, TLC

VARIABLES
    df,           \* the candle frame handed to the function under evaluation
    lookback,     \* the lookback argument of the smc_indicators queries
    cfg,          \* the strategy configuration dictionary
    now,          \* datetime.now(ny_tz) as read by the latest call (time of day)
    strategies,   \* StrategyManager.strategies, built by __init__
    entry_price,  \* get_exit_levels argument
    side,         \* get_exit_levels argument
    details,      \* get_exit_levels argument (the signal's details dict)
    ret,          \* the latest call: [fn |-> name, val |-> returned value]
    prev,         \* the call before it (same frame, same configuration)
    trades,       \* TradeTracker.trades
    file,         \* the tracker's file: [state |-> "absent" | "ok" | "corrupt", trades]
    cooldown_until, \* MudrexExecutor._balance_cooldown_until (NaN: None), in ticks
    clock,        \* the wall clock datetime.now() reads, in ticks
    requests,     \* the exchange calls of the latest place_order: [kind, at, ok]
    symbols,      \* SMCTradingBot.symbols
    scans,        \* the scan_symbol calls of the latest scan: [symbol, candles, side]
    current_positions, \* SMCTradingBot.current_positions, in insertion order
    dry_run,      \* SMCTradingBot.dry_run
    max_positions, \* SMCTradingBot.max_positions
    pc,           \* where SMCTradingBot.run stands in its loop
    calls         \* the executor calls of the bot's latest step: [fn, symbol, ok]

\* state of the components outside the analysis path
trackerVars == <<trades, file>>

executorVars == <<cooldown_until, clock, requests>>

loopVars == <<current_positions, dry_run, max_positions, pc, calls>>

botVars == <<symbols, scans, loopVars>>

componentVars == <<trackerVars, executorVars, botVars>>

vars == <<df, lookback, cfg, now, strategies, entry_price, side, details, ret, prev,
          componentVars>>

----------------------------------------------------------------------------
(* Missing values *)

\* pandas NaN / Python None.  No price, index or direction of the model is negative
\* below -1, so the marker collides with no real value.
NaN == -999

isna(x) == x = NaN

\* Python comparisons: any comparison with NaN is False.
Le(a, b) == ~isna(a) /\ ~isna(b) /\ a <= b

Max(a, b) == IF a >= b THEN a ELSE b
Min(a, b) == IF a <= b THEN a ELSE b

----------------------------------------------------------------------------
(* Frames *)

OhlcvColumns == {"open", "high", "low", "close", "volume"}

\* the columns calculate_smc adds
SmcColumns ==
    {"atr_14", "swing_hl", "swing_level",
     "fvg", "fvg_top", "fvg_bottom", "fvg_mitigated",
     "bos", "choch", "structure_level", "structure_broken_idx",
     "ob", "ob_top", "ob_bottom", "ob_volume", "ob_mitigated", "ob_strength",
     "liquidity", "liq_level", "liq_swept"}

FullColumns == OhlcvColumns \cup SmcColumns

\* a candle with no indicator value on it
BlankRow ==
    [close |-> 1000, high |-> 1000, low |-> 1000, volume |-> 10,
     atr_14 |-> NaN, swing_hl |-> NaN,
     ob |-> NaN, ob_top |-> NaN, ob_bottom |-> NaN, ob_mitigated |-> NaN, ob_strength |-> NaN,
     fvg |-> NaN, fvg_top |-> NaN, fvg_bottom |-> NaN, fvg_mitigated |-> NaN,
     bos |-> NaN, choch |-> NaN, structure_level |-> NaN]

NoneFrame == [isNone |-> TRUE, columns |-> {}, rows |-> << >>]

Frame(cols, rows) == [isNone |-> FALSE, columns |-> cols, rows |-> rows]

\* len(df)
len(d) == Len(d.rows)

\* first position of df.iloc[-k:] for k >= 0: Python's -0 is 0, so k = 0 slices
\* from position 0 (the whole frame), and k > len(df) is clipped to position 0.
TailStart(d, k) == IF k = 0 \/ k >= len(d) THEN 0 ELSE len(d) - k

\* df.iloc[p] for a Python position 0 <= p < len(df)
iloc(d, p) == d.rows[p + 1]

----------------------------------------------------------------------------
(* smc_indicators.py: active-zone and latest-structure queries *)

\* {"bullish": [], "bearish": []}; exc marks an exception leaving the function
EmptyZones == [exc |-> FALSE, bullish |-> << >>, bearish |-> << >>]

\* a KeyError raised by reading a column the frame does not have
ZonesKeyError == [exc |-> TRUE, bullish |-> << >>, bearish |-> << >>]

\* mutation of ob_is_mitigated: a block mitigated at the current index stays active
ob_is_mitigated_strict(mitigated_idx, current_idx) ==
    ~isna(mitigated_idx) /\ mitigated_idx < current_idx

\* "if not pd.isna(mitigated_idx) and mitigated_idx <= current_idx: continue"
ob_is_mitigated(mitigated_idx, current_idx) ==
    ~isna(mitigated_idx) /\ mitigated_idx <= current_idx

\* the same test in get_active_fvgs
fvg_is_mitigated(mitigated_idx, current_idx) ==
    ~isna(mitigated_idx) /\ mitigated_idx <= current_idx

\* the loop of get_active_order_blocks from Python position p of df on
RECURSIVE ob_loop(_, _, _)
ob_loop(d, p, acc) ==
    IF acc.exc \/ p >= len(d) THEN acc
    ELSE LET row == iloc(d, p)
             ob_data == <<p, row.ob_top, row.ob_bottom, row.ob_strength>>
         IN  IF isna(row.ob) THEN ob_loop(d, p + 1, acc)
             ELSE IF "ob_mitigated" \notin d.columns THEN ZonesKeyError
             ELSE IF ob_is_mitigated(row.ob_mitigated, len(d) - 1) THEN ob_loop(d, p + 1, acc)
             ELSE IF ~({"ob_top", "ob_bottom", "ob_strength"} \subseteq d.columns)
                  THEN ZonesKeyError
             ELSE IF row.ob = 1
                  THEN ob_loop(d, p + 1, [acc EXCEPT !.bullish = Append(@, ob_data)])
             ELSE IF row.ob = -1
                  THEN ob_loop(d, p + 1, [acc EXCEPT !.bearish = Append(@, ob_data)])
             ELSE ob_loop(d, p + 1, acc)

\* mutation of get_active_order_blocks: the lookback window is ignored
get_active_order_blocks_all(d, k) ==
    IF d.isNone \/ "ob" \notin d.columns THEN EmptyZones
    ELSE ob_loop(d, 0, EmptyZones)

get_active_order_blocks(d, k) ==
    IF d.isNone \/ "ob" \notin d.columns THEN EmptyZones
    ELSE ob_loop(d, TailStart(d, k), EmptyZones)

RECURSIVE fvg_loop(_, _, _)
fvg_loop(d, p, acc) ==
    IF acc.exc \/ p >= len(d) THEN acc
    ELSE LET row == iloc(d, p)
             fvg_data == <<p, row.fvg_top, row.fvg_bottom>>
         IN  IF isna(row.fvg) THEN fvg_loop(d, p + 1, acc)
             ELSE IF "fvg_mitigated" \notin d.columns THEN ZonesKeyError
             ELSE IF fvg_is_mitigated(row.fvg_mitigated, len(d) - 1) THEN fvg_loop(d, p + 1, acc)
             ELSE IF ~({"fvg_top", "fvg_bottom"} \subseteq d.columns) THEN ZonesKeyError
             ELSE IF row.fvg = 1
                  THEN fvg_loop(d, p + 1, [acc EXCEPT !.bullish = Append(@, fvg_data)])
             ELSE IF row.fvg = -1
                  THEN fvg_loop(d, p + 1, [acc EXCEPT !.bearish = Append(@, fvg_data)])
             ELSE fvg_loop(d, p + 1, acc)

get_active_fvgs(d, k) ==
    IF d.isNone \/ "fvg" \notin d.columns THEN EmptyZones
    ELSE fvg_loop(d, TailStart(d, k), EmptyZones)

\* {"type": None, "direction": None, "level": None, "index": None}
NoStructure == [exc |-> FALSE, type |-> "None", direction |-> NaN, level |-> NaN, index |-> NaN]

StructureKeyError == [NoStructure EXCEPT !.exc = TRUE]

\* mutation of structure_at: BOS is tested before CHOCH
structure_at_bos_first(d, p) ==
    LET row == iloc(d, p)
    IN  IF ~isna(row.bos)
        THEN [exc |-> FALSE, type |-> "BOS", direction |-> row.bos,
              level |-> row.structure_level, index |-> p]
        ELSE IF ~isna(row.choch)
        THEN [exc |-> FALSE, type |-> "CHOCH", direction |-> row.choch,
              level |-> row.structure_level, index |-> p]
        ELSE NoStructure

\* the body of the backward loop of get_latest_structure at position p:
\* the CHOCH test comes first, then the BOS test; NoStructure when neither returns
structure_at(d, p) ==
    LET row == iloc(d, p)
    IN  IF "choch" \notin d.columns THEN StructureKeyError
        ELSE IF ~isna(row.choch)
        THEN IF "structure_level" \notin d.columns THEN StructureKeyError
             ELSE [exc |-> FALSE, type |-> "CHOCH", direction |-> row.choch,
                   level |-> row.structure_level, index |-> p]
        ELSE IF ~isna(row.bos)
        THEN IF "structure_level" \notin d.columns THEN StructureKeyError
             ELSE [exc |-> FALSE, type |-> "BOS", direction |-> row.bos,
                   level |-> row.structure_level, index |-> p]
        ELSE NoStructure

\* "for i in range(len(recent) - 1, -1, -1)": from position p down to position lo
RECURSIVE structure_loop(_, _, _)
structure_loop(d, p, lo) ==
    IF p < lo THEN NoStructure
    ELSE LET s == structure_at(d, p)
         IN  IF s.exc \/ s.type # "None" THEN s ELSE structure_loop(d, p - 1, lo)

get_latest_structure(d, k) ==
    IF d.isNone \/ "bos" \notin d.columns THEN NoStructure
    ELSE structure_loop(d, len(d) - 1, TailStart(d, k))

----------------------------------------------------------------------------
(* strategy.py: the three strategies *)

\* (None, None)
NoSignal ==
    [side |-> "None", strategy |-> "None", entry_price |-> NaN, stop_loss |-> NaN, level |-> NaN]

\* an exception leaving get_signal (KeyError, IndexError, AttributeError)
Raised == [NoSignal EXCEPT !.side = "EXC"]

\* the (side, details) pair a strategy returns; level is the details' third key
\* (ob_level, sweep_level or fvg_level)
Signal(sd, name, entry, stop, lvl) ==
    [side |-> sd, strategy |-> name, entry_price |-> entry, stop_loss |-> stop, level |-> lvl]

\* "if df is None or len(df) < 50" of OrderBlockStrategy and LiquiditySweepStrategy
MinCandles == 50

\* get_latest_structure(df, lookback=20) in OrderBlockStrategy.get_signal
StructureLookback == 20

\* get_active_fvgs(df, lookback=10) in SilverBulletStrategy.get_signal
FvgLookback == 10

\* df["volume"].tail(20) in LiquiditySweepStrategy.get_signal
VolumeWindow == 20

\* "ob_bottom <= current_price <= ob_top * 1.001", in thousandths
long_zone(ob_top, ob_bottom, current_price) ==
    Le(ob_bottom, current_price) /\ ~isna(ob_top) /\ current_price * 1000 <= ob_top * 1001

\* "ob_bottom * 0.999 <= current_price <= ob_top", in thousandths
short_zone(ob_top, ob_bottom, current_price) ==
    ~isna(ob_bottom) /\ ob_bottom * 999 <= current_price * 1000 /\ Le(current_price, ob_top)

\* the "for ob in obs['bullish']" loop from the i-th entry on
RECURSIVE ob_long_loop(_, _, _, _, _)
ob_long_loop(d, c, obs, i, current_price) ==
    IF i > Len(obs) THEN NoSignal
    ELSE LET ob_top == obs[i][2]
             ob_bottom == obs[i][3]
         IN  IF ~long_zone(ob_top, ob_bottom, current_price)
             THEN ob_long_loop(d, c, obs, i + 1, current_price)
             ELSE IF ~c.order_block.require_structure
             THEN Signal("LONG", "OrderBlock", current_price, ob_bottom, ob_top)
             ELSE LET structure == get_latest_structure(d, StructureLookback)
                  IN  IF structure.exc THEN Raised
                      ELSE IF structure.direction # 1
                      THEN ob_long_loop(d, c, obs, i + 1, current_price)
                      ELSE Signal("LONG", "OrderBlock", current_price, ob_bottom, ob_top)

\* the "for ob in obs['bearish']" loop from the i-th entry on
RECURSIVE ob_short_loop(_, _, _, _, _)
ob_short_loop(d, c, obs, i, current_price) ==
    IF i > Len(obs) THEN NoSignal
    ELSE LET ob_top == obs[i][2]
             ob_bottom == obs[i][3]
         IN  IF ~short_zone(ob_top, ob_bottom, current_price)
             THEN ob_short_loop(d, c, obs, i + 1, current_price)
             ELSE IF ~c.order_block.require_structure
             THEN Signal("SHORT", "OrderBlock", current_price, ob_top, ob_bottom)
             ELSE LET structure == get_latest_structure(d, StructureLookback)
                  IN  IF structure.exc THEN Raised
                      ELSE IF structure.direction # -1
                      THEN ob_short_loop(d, c, obs, i + 1, current_price)
                      ELSE Signal("SHORT", "OrderBlock", current_price, ob_top, ob_bottom)

\* mutation of OrderBlockStrategy_get_signal: the bearish loop runs before the bullish
OrderBlockStrategy_get_signal_short_first(d, c) ==
    IF d.isNone \/ len(d) < MinCandles THEN NoSignal
    ELSE IF "close" \notin d.columns THEN Raised
    ELSE LET current_price == iloc(d, len(d) - 1).close
             obs == get_active_order_blocks(d, c.order_block.lookback)
         IN  IF obs.exc THEN Raised
             ELSE LET short == ob_short_loop(d, c, obs.bearish, 1, current_price)
                  IN  IF short.side # "None" THEN short
                      ELSE ob_long_loop(d, c, obs.bullish, 1, current_price)

\* OrderBlockStrategy.get_signal
OrderBlockStrategy_get_signal(d, c) ==
    IF d.isNone \/ len(d) < MinCandles THEN NoSignal
    ELSE IF "close" \notin d.columns THEN Raised
    ELSE LET current_price == iloc(d, len(d) - 1).close
             obs == get_active_order_blocks(d, c.order_block.lookback)
         IN  IF obs.exc THEN Raised
             ELSE LET long == ob_long_loop(d, c, obs.bullish, 1, current_price)
                  IN  IF long.side # "None" THEN long
                      ELSE ob_short_loop(d, c, obs.bearish, 1, current_price)

\* sum of df["volume"] over Python positions lo .. hi
RECURSIVE volume_sum(_, _, _)
volume_sum(d, lo, hi) ==
    IF lo > hi THEN 0 ELSE iloc(d, lo).volume + volume_sum(d, lo + 1, hi)

\* number of rows in df["volume"].tail(20)
volume_count(d) == Min(VolumeWindow, len(d))

\* "curr['volume'] > avg_volume * 1.2 if require_volume else True", with
\* avg_volume = df["volume"].tail(20).mean(); both sides times 10 * count
has_volume(d, c) ==
    ~c.liquidity_sweep.require_volume
    \/ iloc(d, len(d) - 1).volume * 10 * volume_count(d)
         > volume_sum(d, len(d) - volume_count(d), len(d) - 1) * 12

\* df[df["swing_hl"] != 0]: NaN != 0 is True, so a row without a swing passes
swing_filter(d, p) == iloc(d, p).swing_hl # 0

\* positions of df[df["swing_hl"] != 0].tail(2), ascending
recent_swings(d) ==
    LET sel == {p \in 0..(len(d) - 1) : swing_filter(d, p)}
        last == IF sel = {} THEN {} ELSE {CHOOSE p \in sel : \A q \in sel : q <= p}
        rest == sel \ last
        second == IF rest = {} THEN {} ELSE {CHOOSE p \in rest : \A q \in rest : q <= p}
    IN  IF second = {} THEN (IF last = {} THEN << >> ELSE <<CHOOSE p \in last : TRUE>>)
        ELSE <<CHOOSE p \in second : TRUE, CHOOSE p \in last : TRUE>>

\* the long test of LiquiditySweepStrategy.get_signal on one swing row
sweep_long(d, c, level) ==
    LET low1 == iloc(d, len(d) - 1).low
        low2 == iloc(d, len(d) - 2).low
        swept == low2 < level \/ low1 < level
        rejected == iloc(d, len(d) - 1).close > level
        meaningful_sweep == (level - Min(low2, low1)) * 1000 > level
    IN  swept /\ rejected /\ has_volume(d, c) /\ meaningful_sweep

\* the short test of LiquiditySweepStrategy.get_signal on one swing row
sweep_short(d, c, level) ==
    LET high1 == iloc(d, len(d) - 1).high
        high2 == iloc(d, len(d) - 2).high
        swept == high2 > level \/ high1 > level
        rejected == iloc(d, len(d) - 1).close < level
        meaningful_sweep == (Max(high2, high1) - level) * 1000 > level
    IN  swept /\ rejected /\ has_volume(d, c) /\ meaningful_sweep

\* first "for idx, swing in recent_swings.iterrows()" loop, from the i-th swing on
RECURSIVE ls_long_loop(_, _, _, _)
ls_long_loop(d, c, sw, i) ==
    IF i > Len(sw) THEN NoSignal
    ELSE LET swing == iloc(d, sw[i])
             curr == iloc(d, len(d) - 1)
             prv == iloc(d, len(d) - 2)
         IN  IF swing.swing_hl = -1 /\ sweep_long(d, c, swing.low)
             THEN Signal("LONG", "LiquiditySweep", curr.close, Min(curr.low, prv.low), swing.low)
             ELSE ls_long_loop(d, c, sw, i + 1)

\* second loop, from the i-th swing on
RECURSIVE ls_short_loop(_, _, _, _)
ls_short_loop(d, c, sw, i) ==
    IF i > Len(sw) THEN NoSignal
    ELSE LET swing == iloc(d, sw[i])
             curr == iloc(d, len(d) - 1)
             prv == iloc(d, len(d) - 2)
         IN  IF swing.swing_hl = 1 /\ sweep_short(d, c, swing.high)
             THEN Signal("SHORT", "LiquiditySweep", curr.close, Max(curr.high, prv.high), swing.high)
             ELSE ls_short_loop(d, c, sw, i + 1)

\* LiquiditySweepStrategy.get_signal
LiquiditySweepStrategy_get_signal(d, c) ==
    IF d.isNone \/ len(d) < MinCandles THEN NoSignal
    ELSE IF ~({"swing_hl", "volume"} \subseteq d.columns) THEN Raised
    ELSE LET sw == recent_swings(d)
             long == ls_long_loop(d, c, sw, 1)
         IN  IF long.side # "None" THEN long ELSE ls_short_loop(d, c, sw, 1)

\* datetime comparison a <= b of two times of the same day
dt_le(a, b) ==
    \/ a.hour < b.hour
    \/ a.hour = b.hour /\ a.minute < b.minute
    \/ a.hour = b.hour /\ a.minute = b.minute /\ a.second < b.second
    \/ a.hour = b.hour /\ a.minute = b.minute /\ a.second = b.second
       /\ a.microsecond <= b.microsecond

\* now.replace(hour=h, minute=m, second=0, microsecond=0)
dt_replace(t, h, m) == [t EXCEPT !.hour = h, !.minute = m, !.second = 0, !.microsecond = 0]

\* the windows list of _is_in_window: (h_start, m_start, h_end, m_end) per session
windows(sessions) ==
    (IF "london_open" \in sessions THEN <<(<<3, 0, 4, 0>>)>> ELSE << >>)
    \o (IF "ny_am" \in sessions THEN <<(<<10, 0, 11, 0>>)>> ELSE << >>)
    \o (IF "ny_pm" \in sessions THEN <<(<<14, 0, 15, 0>>)>> ELSE << >>)

\* "if start_dt <= now <= end_dt"
in_one_window(t, w) == dt_le(dt_replace(t, w[1], w[2]), t) /\ dt_le(t, dt_replace(t, w[3], w[4]))

\* SilverBulletStrategy._is_in_window
is_in_window(t, c) ==
    LET ws == windows(c.silver_bullet.sessions)
    IN  \E i \in 1..Len(ws) : in_one_window(t, ws[i])

\* "fvg[2] <= current_price <= fvg[1]"
inside_fvg(fvg, current_price) == Le(fvg[3], current_price) /\ Le(current_price, fvg[2])

\* "for fvg in active_fvgs[...]" from the i-th entry on; bull tells the direction
RECURSIVE sb_loop(_, _, _, _)
sb_loop(fvgs, i, current_price, bull) ==
    IF i > Len(fvgs) THEN NoSignal
    ELSE IF ~inside_fvg(fvgs[i], current_price) THEN sb_loop(fvgs, i + 1, current_price, bull)
    ELSE IF bull
    THEN Signal("LONG", "SilverBullet", current_price, (fvgs[i][3] * 999) \div 1000, fvgs[i][2])
    ELSE Signal("SHORT", "SilverBullet", current_price, (fvgs[i][2] * 1001) \div 1000, fvgs[i][3])

\* SilverBulletStrategy.get_signal at wall-clock time t
SilverBulletStrategy_get_signal(d, c, t) ==
    IF ~is_in_window(t, c) THEN NoSignal
    ELSE LET active_fvgs == get_active_fvgs(d, FvgLookback)
         IN  IF active_fvgs.exc THEN Raised
             ELSE IF d.isNone \/ len(d) = 0 \/ "close" \notin d.columns THEN Raised
             ELSE LET current_price == iloc(d, len(d) - 1).close
                      long == sb_loop(active_fvgs.bullish, 1, current_price, TRUE)
                  IN  IF long.side # "None" THEN long
                      ELSE sb_loop(active_fvgs.bearish, 1, current_price, FALSE)

----------------------------------------------------------------------------
(* strategy.py: StrategyManager *)

\* x in list
InList(x, list) == \E i \in 1..Len(list) : list[i] = x

\* StrategyManager.__init__: "if not active: active = ['order_block']", then the
\* three "if ... in active: self.strategies.append(...)" statements in source order
StrategyManager_init(active_strategies) ==
    LET active == IF active_strategies = << >> THEN <<"order_block">> ELSE active_strategies
    IN  (IF InList("order_block", active) THEN <<"OrderBlock">> ELSE << >>)
        \o (IF InList("liquidity_sweep", active) THEN <<"LiquiditySweep">> ELSE << >>)
        \o (IF InList("silver_bullet", active) THEN <<"SilverBullet">> ELSE << >>)

\* strategy.get_signal(df, symbol) by class
get_signal(name, d, c, t) ==
    CASE name = "OrderBlock" -> OrderBlockStrategy_get_signal(d, c)
      [] name = "LiquiditySweep" -> LiquiditySweepStrategy_get_signal(d, c)
      [] name = "SilverBullet" -> SilverBulletStrategy_get_signal(d, c, t)

\* mutation of check_signals_loop: the exception of a strategy is not caught
RECURSIVE check_signals_loop_uncaught(_, _, _, _, _, _)
check_signals_loop_uncaught(strats, i, d, c, t, acc) ==
    IF i > Len(strats) THEN acc
    ELSE LET sig == get_signal(strats[i], d, c, t)
             seen == [acc EXCEPT !.evaluated = Append(@, strats[i])]
         IN  IF sig.side = "EXC"
             THEN [seen EXCEPT !.signal = Raised, !.failed = @ \cup {strats[i]}]
             ELSE IF sig.side # "None" THEN [seen EXCEPT !.signal = sig]
             ELSE check_signals_loop_uncaught(strats, i + 1, d, c, t, seen)

\* "for strategy in self.strategies" from the i-th strategy on.  The result carries
\* the returned signal, the strategies whose get_signal was called, in call order,
\* and those that raised (logged by the except clause).
RECURSIVE check_signals_loop(_, _, _, _, _, _)
check_signals_loop(strats, i, d, c, t, acc) ==
    IF i > Len(strats) THEN acc
    ELSE LET sig == get_signal(strats[i], d, c, t)
             seen == [acc EXCEPT !.evaluated = Append(@, strats[i])]
         IN  IF sig.side = "EXC"
             THEN check_signals_loop(strats, i + 1, d, c, t,
                                     [seen EXCEPT !.failed = @ \cup {strats[i]}])
             ELSE IF sig.side # "None" THEN [seen EXCEPT !.signal = sig]
             ELSE check_signals_loop(strats, i + 1, d, c, t, seen)

\* StrategyManager.check_signals
check_signals(strats, d, c, t) ==
    check_signals_loop(strats, 1, d, c, t,
                       [signal |-> NoSignal, evaluated |-> << >>, failed |-> {}])

\* tp_mult = 2.0 in get_exit_levels
tp_mult == 2

\* the ATR get_exit_levels works with: df.iloc[-1]["atr_14"], and entry_price * 0.01
\* when reading it raises or when it is NaN
exit_atr(entry, d) ==
    IF d.isNone \/ len(d) = 0 \/ "atr_14" \notin d.columns THEN entry \div 100
    ELSE IF isna(iloc(d, len(d) - 1).atr_14) THEN entry \div 100
    ELSE iloc(d, len(d) - 1).atr_14

\* mutation of get_exit_levels: the safety tests are strict (sl_price > entry_price,
\* sl_price < entry_price), so a stop equal to the entry price is kept
get_exit_levels_strict(entry, sd, d, det) ==
    LET atr == exit_atr(entry, d)
        stop_basis == IF isna(det.stop_loss) THEN entry ELSE det.stop_loss
    IN  IF sd = "LONG"
        THEN LET sl_price == IF stop_basis > entry THEN entry - atr ELSE stop_basis
                 risk == entry - sl_price
             IN  [sl_price |-> sl_price, tp_price |-> entry + risk * tp_mult]
        ELSE IF sd = "SHORT"
        THEN LET sl_price == IF stop_basis < entry THEN entry + atr ELSE stop_basis
                 risk == sl_price - entry
             IN  [sl_price |-> sl_price, tp_price |-> entry - risk * tp_mult]
        ELSE [sl_price |-> 0, tp_price |-> 0]

\* StrategyManager.get_exit_levels; det.stop_loss = NaN models a details dict with no
\* "stop_loss" key.  Returns (sl_price, tp_price).
get_exit_levels(entry, sd, d, det) ==
    LET atr == exit_atr(entry, d)
        stop_basis == IF isna(det.stop_loss) THEN entry ELSE det.stop_loss
    IN  IF sd = "LONG"
        THEN LET sl_price == IF stop_basis >= entry THEN entry - atr ELSE stop_basis
                 risk == entry - sl_price
             IN  [sl_price |-> sl_price, tp_price |-> entry + risk * tp_mult]
        ELSE IF sd = "SHORT"
        THEN LET sl_price == IF stop_basis <= entry THEN entry + atr ELSE stop_basis
                 risk == sl_price - entry
             IN  [sl_price |-> sl_price, tp_price |-> entry - risk * tp_mult]
        ELSE [sl_price |-> 0, tp_price |-> 0]

----------------------------------------------------------------------------
(* Inputs *)

\* longest frame of the indicator-query specification
MaxRows == 3

\* largest lookback argument of the indicator-query specification
MaxLookback == 4

Midnight == [hour |-> 0, minute |-> 0, second |-> 0, microsecond |-> 0]

DefaultCfg ==
    [active_strategies |-> <<"order_block">>,
     order_block |-> [lookback |-> 50, require_structure |-> TRUE],
     liquidity_sweep |-> [require_volume |-> TRUE],
     silver_bullet |-> [sessions |-> {}]]

\* the components a specification does not exercise stay as constructed
TrackerIdle ==
    /\ trades = << >>
    /\ file = [state |-> "absent", trades |-> << >>]

ExecutorIdle ==
    /\ cooldown_until = NaN
    /\ clock = 0
    /\ requests = << >>

\* run() has not been called
LoopIdle ==
    /\ current_positions = << >>
    /\ dry_run = FALSE
    /\ max_positions = 1
    /\ pc = "idle"
    /\ calls = << >>

BotIdle ==
    /\ symbols = << >>
    /\ scans = << >>
    /\ LoopIdle

ComponentsIdle == TrackerIdle /\ ExecutorIdle /\ BotIdle

NoCall == [fn |-> "none", val |-> NoSignal]

NoDetails == [stop_loss |-> NaN]

\* What one row of an input frame carries: an order block, a fair value gap or a
\* structure event.  off places the mitigated index relative to the current index
\* (NaN: not mitigated).
ObKinds ==
    {<<"blank", 0, NaN>>}
    \cup {<<"ob", 1, off>> : off \in {NaN, -1, 0, 1}}
    \cup {<<"ob", -1, off>> : off \in {NaN, 0}}

FvgKinds ==
    {<<"blank", 0, NaN>>}
    \cup {<<"fvg", 1, off>> : off \in {NaN, -1, 0, 1}}
    \cup {<<"fvg", -1, off>> : off \in {NaN, 0}}

\* <<"st", bos, choch>>
StructKinds ==
    {<<"blank", 0, NaN>>}
    \cup {<<"st", b, NaN>> : b \in {1, -1}}
    \cup {<<"st", NaN, ch>> : ch \in {1, -1}}
    \cup {<<"st", 1, -1>>, <<"st", -1, 1>>}

\* the mitigated index of a row of kind k in a frame whose last position is cur
MitigatedAt(k, cur) == IF isna(k[3]) THEN NaN ELSE Max(0, cur + k[3])

\* the row of kind k at position p of a frame whose last position is cur
KindRow(k, p, cur) ==
    CASE k[1] = "ob" ->
           [BlankRow EXCEPT !.ob = k[2], !.ob_top = 2000 + p, !.ob_bottom = 1990 + p,
                            !.ob_strength = 50, !.ob_mitigated = MitigatedAt(k, cur)]
      [] k[1] = "fvg" ->
           [BlankRow EXCEPT !.fvg = k[2], !.fvg_top = 2000 + p, !.fvg_bottom = 1990 + p,
                            !.fvg_mitigated = MitigatedAt(k, cur)]
      [] k[1] = "st" ->
           [BlankRow EXCEPT !.bos = k[2], !.choch = k[3], !.structure_level = 2000 + p]
      [] OTHER -> BlankRow

\* the analysed frame whose rows have the kinds ks
KindFrame(ks) == Frame(FullColumns, [p \in 1..Len(ks) |-> KindRow(ks[p], p - 1, Len(ks) - 1)])

KindSeqs(kinds) == UNION {[1..n -> kinds] : n \in 0..MaxRows}

IndFrames ==
    {KindFrame(ks) : ks \in KindSeqs(ObKinds) \cup KindSeqs(FvgKinds) \cup KindSeqs(StructKinds)}
    \cup {NoneFrame}
    \cup {Frame(OhlcvColumns, [p \in 1..n |-> BlankRow]) : n \in 0..MaxRows}

----------------------------------------------------------------------------
(* Specification of the smc_indicators queries *)

InitInd ==
    /\ df \in IndFrames
    /\ lookback \in 0..MaxLookback
    /\ cfg = DefaultCfg
    /\ now = Midnight
    /\ strategies = StrategyManager_init(cfg.active_strategies)
    /\ entry_price = 0
    /\ side = "None"
    /\ details = NoDetails
    /\ ret = NoCall
    /\ prev = NoCall
    /\ ComponentsIdle

CallGetActiveOrderBlocks ==
    /\ ret' = [fn |-> "get_active_order_blocks", val |-> get_active_order_blocks(df, lookback)]
    /\ UNCHANGED <<df, lookback, cfg, now, strategies, entry_price, side, details, prev>>
    /\ UNCHANGED componentVars

CallGetActiveFvgs ==
    /\ ret' = [fn |-> "get_active_fvgs", val |-> get_active_fvgs(df, lookback)]
    /\ UNCHANGED <<df, lookback, cfg, now, strategies, entry_price, side, details, prev>>
    /\ UNCHANGED componentVars

CallGetLatestStructure ==
    /\ ret' = [fn |-> "get_latest_structure", val |-> get_latest_structure(df, lookback)]
    /\ UNCHANGED <<df, lookback, cfg, now, strategies, entry_price, side, details, prev>>
    /\ UNCHANGED componentVars

NextInd ==
    \/ CallGetActiveOrderBlocks
    \/ CallGetActiveFvgs
    \/ CallGetLatestStructure

SpecInd == InitInd /\ [][NextInd]_vars

----------------------------------------------------------------------------
(* Claims about the smc_indicators queries (checked under SpecInd) *)

\* the index of every entry of a returned {"bullish": [...], "bearish": [...]}
ReturnedIdx(zones) ==
    {zones.bullish[i][1] : i \in 1..Len(zones.bullish)}
    \cup {zones.bearish[i][1] : i \in 1..Len(zones.bearish)}

\* C3: no entry returned by get_active_order_blocks or get_active_fvgs belongs to a
\* row whose mitigated index is set and is <= the current index len(df) - 1, for
\* every frame and every lookback (0 included).
C3_NoMitigatedReturned ==
    /\ ret.fn = "get_active_order_blocks" =>
         \A p \in ReturnedIdx(ret.val) :
             isna(iloc(df, p).ob_mitigated) \/ iloc(df, p).ob_mitigated > len(df) - 1
    /\ ret.fn = "get_active_fvgs" =>
         \A p \in ReturnedIdx(ret.val) :
             isna(iloc(df, p).fvg_mitigated) \/ iloc(df, p).fvg_mitigated > len(df) - 1

\* C3 witness: a query over a window holding a block mitigated exactly at the current
\* index has returned another block and left that one out.
C3_Witness ==
    /\ ret.fn = "get_active_order_blocks"
    /\ lookback >= len(df)
    /\ \E p \in 0..(len(df) - 1) :
          /\ ~isna(iloc(df, p).ob)
          /\ iloc(df, p).ob_mitigated = len(df) - 1
          /\ p \notin ReturnedIdx(ret.val)
    /\ ReturnedIdx(ret.val) # {}

\* positions of the trailing k candles of df
Trailing(d, k) == {p \in 0..(len(d) - 1) : p >= len(d) - k}

\* the entries get_active_order_blocks builds for the positions ps, ascending
RECURSIVE ObEntries(_, _, _)
ObEntries(d, ps, from) ==
    IF from >= len(d) THEN << >>
    ELSE (IF from \in ps
          THEN <<(<<from, iloc(d, from).ob_top, iloc(d, from).ob_bottom,
                    iloc(d, from).ob_strength>>)>>
          ELSE << >>) \o ObEntries(d, ps, from + 1)

StructureRows(d, k) ==
    {p \in Trailing(d, k) : ~isna(iloc(d, p).bos) \/ ~isna(iloc(d, p).choch)}

----------------------------------------------------------------------------
(* Specification of the exit-level computation *)

\* one-row analysed frames with every ATR value of the model, and the frames on
\* which reading df.iloc[-1]["atr_14"] raises
RiskFrames ==
    {Frame(FullColumns, <<[BlankRow EXCEPT !.atr_14 = a]>>) : a \in {NaN, 0, 500, 1000}}
    \cup {NoneFrame, Frame(FullColumns, << >>), Frame(OhlcvColumns, <<BlankRow>>)}

\* stop bases relative to the entry price: on the protective side, equal, beyond
StopOffsets == {-1000, -100, 0, 100, 1000}

InitRisk ==
    /\ df \in RiskFrames
    /\ lookback = 0
    /\ cfg = DefaultCfg
    /\ now = Midnight
    /\ strategies = StrategyManager_init(cfg.active_strategies)
    /\ entry_price \in {100000, 20000}
    /\ side \in {"LONG", "SHORT"}
    /\ details \in {NoDetails} \cup {[stop_loss |-> entry_price + o] : o \in StopOffsets}
    /\ ret = NoCall
    /\ prev = NoCall
    /\ ComponentsIdle

CallGetExitLevels ==
    /\ ret' = [fn |-> "get_exit_levels",
               val |-> get_exit_levels(entry_price, side, df, details)]
    /\ UNCHANGED <<df, lookback, cfg, now, strategies, entry_price, side, details, prev>>
    /\ UNCHANGED componentVars

NextRisk == CallGetExitLevels

SpecRisk == InitRisk /\ [][NextRisk]_vars

\* the ATR column value at the current index, NaN when it cannot be read
AtrInput == IF df.isNone \/ len(df) = 0 \/ "atr_14" \notin df.columns THEN NaN
            ELSE iloc(df, len(df) - 1).atr_14

\* C6: the take-profit distance is max(ATR * tp_mult, entry * 0.01) and the stop-loss
\* distance max(ATR * sl_mult, entry * 0.005); with tp_mult = 2 and sl_mult = 1.5, a
\* LONG without a zone bound gets take_profit = entry + max(2 ATR, entry / 100) and
\* stop_loss = entry - max(1.5 ATR, entry / 200) (101000 and 99250 for entry 100000,
\* ATR 500), and with the zone bound 99900 it gets stop_loss = 99800.
C6_AtrDistances ==
    (ret.fn = "get_exit_levels" /\ side = "LONG" /\ ~isna(AtrInput)) =>
        /\ isna(details.stop_loss) =>
             /\ ret.val.tp_price = entry_price + Max(AtrInput * 2, entry_price \div 100)
             /\ ret.val.sl_price = entry_price - Max((AtrInput * 3) \div 2, entry_price \div 200)
        /\ (entry_price = 100000 /\ AtrInput = 500 /\ details.stop_loss = 99900) =>
             ret.val.sl_price = 99800

\* C7: for a positive ATR the returned levels satisfy stop_loss < entry < take_profit
\* for LONG and take_profit < entry < stop_loss for SHORT, and a stop basis on the
\* wrong side of the entry price, or equal to it, is replaced by entry -/+ ATR.
C7_StopOnProtectiveSide ==
    (ret.fn = "get_exit_levels" /\ ~isna(AtrInput) /\ AtrInput > 0) =>
        LET stop_basis == IF isna(details.stop_loss) THEN entry_price ELSE details.stop_loss
        IN  /\ side = "LONG" =>
                 /\ ret.val.sl_price < entry_price /\ entry_price < ret.val.tp_price
                 /\ stop_basis >= entry_price => ret.val.sl_price = entry_price - AtrInput
            /\ side = "SHORT" =>
                 /\ ret.val.tp_price < entry_price /\ entry_price < ret.val.sl_price
                 /\ stop_basis <= entry_price => ret.val.sl_price = entry_price + AtrInput

\* C7 witness: a SHORT whose stop basis lies below the entry price has been given
\* the stop entry + ATR.
C7_Witness ==
    /\ ret.fn = "get_exit_levels"
    /\ side = "SHORT"
    /\ AtrInput = 500
    /\ ~isna(details.stop_loss) /\ details.stop_loss < entry_price
    /\ ret.val.sl_price = entry_price + 500
    /\ ret.val.tp_price = entry_price - 1000

\* the stop of the signal is unusable (absent, or not on the protective side of the
\* entry price), so that get_exit_levels derives the stop from the ATR
StopFromAtr ==
    LET stop_basis == IF isna(details.stop_loss) THEN entry_price ELSE details.stop_loss
    IN  \/ side = "LONG" /\ stop_basis >= entry_price
        \/ side = "SHORT" /\ stop_basis <= entry_price

\* C13: when the ATR at the current index is undefined (no frame, no row, no atr_14
\* column, or NaN) and the exit levels depend on it, get_exit_levels yields no
\* stop-loss and no take-profit; no number stands in for the missing ATR.
C13_UndefinedAtrYieldsNoLevels ==
    (ret.fn = "get_exit_levels" /\ isna(AtrInput) /\ StopFromAtr) =>
        isna(ret.val.sl_price) /\ isna(ret.val.tp_price)

----------------------------------------------------------------------------
(* Specification of OrderBlockStrategy.get_signal *)

\* rows a strategy frame may have beyond the 50 the strategies ask for
ExtraRows == 1

\* distance from the end of the row placed outside the structure lookback (20) and
\* inside the default order-block lookback (50)
DeepOffset == 25

\* closes of the current candle: below every zone, inside the zones, inside the
\* 0.1 % tolerance band beyond an edge, outside it.  No close lies on a band's
\* edge (2002, 1998), where the rounding of the float product would decide.
ObCloses == {1985, 1992, 1997, 1999, 2001, 2003, 2012}

\* the order block of kind k on tail position j (0: previous candle, 1: current
\* candle) of a frame whose last position is cur
ObTailRow(row, k, j, cur) ==
    CASE k = "bull" ->
           [row EXCEPT !.ob = 1, !.ob_top = 2000, !.ob_bottom = 1990 + 4 * j,
                       !.ob_strength = 50, !.ob_mitigated = NaN]
      [] k = "bear" ->
           [row EXCEPT !.ob = -1, !.ob_top = 2010 - 4 * j, !.ob_bottom = 2000,
                       !.ob_strength = 50, !.ob_mitigated = NaN]
      [] k = "bullmit" ->
           [row EXCEPT !.ob = 1, !.ob_top = 2000, !.ob_bottom = 1990 + 4 * j,
                       !.ob_strength = 50, !.ob_mitigated = cur]
      [] OTHER -> row

\* a structure event <<bos, choch>> on a row
StructRow(row, st) == [row EXCEPT !.bos = st[1], !.choch = st[2], !.structure_level = 2000]

\* an old bullish block with a bullish BOS, DeepOffset rows before the end
DeepRow ==
    [BlankRow EXCEPT !.ob = 1, !.ob_top = 2000, !.ob_bottom = 1980, !.ob_strength = 50,
                     !.bos = 1, !.structure_level = 2000]

\* the frame of n rows: blank candles, optionally DeepRow, and the last two rows
TailFrame(cols, n, deep, prv, cur) ==
    Frame(cols,
          [p \in 1..n |->
              IF p = n THEN cur
              ELSE IF p = n - 1 THEN prv
              ELSE IF deep /\ p = n - DeepOffset THEN DeepRow
              ELSE BlankRow])

ObFrames ==
    {TailFrame(FullColumns, n, deep,
               StructRow(ObTailRow(BlankRow, k0, 0, n - 1), s0),
               StructRow(ObTailRow([BlankRow EXCEPT !.close = c], k1, 1, n - 1), s1)) :
        n \in {MinCandles - 1, MinCandles, MinCandles + ExtraRows},
        deep \in BOOLEAN,
        k0 \in {"none", "bull", "bear", "bullmit"},
        k1 \in {"none", "bull", "bear"},
        s0 \in {<<NaN, NaN>>, <<1, NaN>>, <<NaN, -1>>},
        s1 \in {<<NaN, NaN>>, <<-1, NaN>>, <<NaN, 1>>, <<-1, 1>>},
        c \in ObCloses}

InitOB ==
    /\ df \in ObFrames \cup {NoneFrame}
    /\ lookback = 0
    /\ cfg \in {[DefaultCfg EXCEPT !.order_block = [lookback |-> k, require_structure |-> rs]] :
                   k \in {50, 1}, rs \in BOOLEAN}
    /\ now = Midnight
    /\ strategies = StrategyManager_init(cfg.active_strategies)
    /\ entry_price = 0
    /\ side = "None"
    /\ details = NoDetails
    /\ ret = NoCall
    /\ prev = NoCall
    /\ ComponentsIdle

EvalOrderBlock ==
    /\ ret' = [fn |-> "OrderBlockStrategy.get_signal",
               val |-> OrderBlockStrategy_get_signal(df, cfg)]
    /\ UNCHANGED <<df, lookback, cfg, now, strategies, entry_price, side, details, prev>>
    /\ UNCHANGED componentVars

NextOB == EvalOrderBlock

SpecOB == InitOB /\ [][NextOB]_vars

\* close of the current candle
CurrentClose == iloc(df, len(df) - 1).close

\* the latest structure direction allows a signal of direction dir (1 or -1)
StructureAllows(dir) ==
    ~cfg.order_block.require_structure
    \/ get_latest_structure(df, StructureLookback).direction = dir

\* entries of the active bullish blocks, in scan order, that admit a LONG
LongMatches ==
    LET obs == get_active_order_blocks(df, cfg.order_block.lookback).bullish
    IN  {i \in 1..Len(obs) :
            /\ obs[i][3] <= CurrentClose
            /\ CurrentClose * 1000 <= obs[i][2] * 1001
            /\ StructureAllows(1)}

\* entries of the active bearish blocks, in scan order, that admit a SHORT
ShortMatches ==
    LET obs == get_active_order_blocks(df, cfg.order_block.lookback).bearish
    IN  {i \in 1..Len(obs) :
            /\ obs[i][3] * 999 <= CurrentClose * 1000
            /\ CurrentClose <= obs[i][2]
            /\ StructureAllows(-1)}

First(S) == CHOOSE i \in S : \A j \in S : i <= j

\* C10: OrderBlockStrategy.get_signal returns LONG iff some active bullish block has
\* ob_bottom <= close <= ob_top * 1.001 and (when require_structure) the latest
\* structure is bullish, with stop_loss the bottom of the first such block in scan
\* order; it returns SHORT iff no block admits a LONG and some active bearish block
\* has ob_bottom * 0.999 <= close <= ob_top and (when require_structure) the latest
\* structure is bearish, with stop_loss the top of the first such block; otherwise it
\* returns no signal.
C10_OrderBlockSignal ==
    (ret.fn = "OrderBlockStrategy.get_signal" /\ ~df.isNone /\ len(df) >= MinCandles) =>
        LET obs == get_active_order_blocks(df, cfg.order_block.lookback)
        IN  /\ ret.val.side \in {"LONG", "SHORT", "None"}
            /\ ret.val.side = "LONG" <=> LongMatches # {}
            /\ ret.val.side = "SHORT" <=> (LongMatches = {} /\ ShortMatches # {})
            /\ ret.val.side = "LONG" =>
                 /\ ret.val.strategy = "OrderBlock"
                 /\ ret.val.entry_price = CurrentClose
                 /\ ret.val.stop_loss = obs.bullish[First(LongMatches)][3]
                 /\ ret.val.level = obs.bullish[First(LongMatches)][2]
            /\ ret.val.side = "SHORT" =>
                 /\ ret.val.strategy = "OrderBlock"
                 /\ ret.val.entry_price = CurrentClose
                 /\ ret.val.stop_loss = obs.bearish[First(ShortMatches)][2]
                 /\ ret.val.level = obs.bearish[First(ShortMatches)][3]
            /\ ret.val.side = "None" => ret.val = NoSignal

\* C10 witness: two bullish blocks and a bearish block all contain the close with
\* no structure required, and LONG is returned with the stop of the first block.
C10_Witness ==
    /\ ret.fn = "OrderBlockStrategy.get_signal"
    /\ ~df.isNone /\ len(df) >= MinCandles
    /\ Cardinality(LongMatches) >= 2
    /\ ShortMatches # {}
    /\ ret.val.side = "LONG"
    /\ ret.val.stop_loss # iloc(df, len(df) - 1).ob_bottom

\* C10 second case, reached as well: structure is required and bearish, a bullish
\* block contains the close, and SHORT is returned from a bearish block.
C10_WitnessShort ==
    /\ ret.fn = "OrderBlockStrategy.get_signal"
    /\ cfg.order_block.require_structure
    /\ ret.val.side = "SHORT"
    /\ \E p \in 0..(len(df) - 1) :
          /\ iloc(df, p).ob = 1 /\ isna(iloc(df, p).ob_mitigated)
          /\ iloc(df, p).ob_bottom <= CurrentClose /\ CurrentClose <= iloc(df, p).ob_top

----------------------------------------------------------------------------
(* Specification of the strategies under a moving wall clock *)

T(h, m, sec, us) == [hour |-> h, minute |-> m, second |-> sec, microsecond |-> us]

\* wall-clock readings: around the start and the end of the ny_am window, and the
\* end of ny_pm
Instants ==
    {T(9, 59, 59, 999999), T(10, 0, 0, 0), T(10, 30, 0, 0),
     T(11, 0, 0, 0), T(11, 0, 0, 1), T(15, 0, 0, 0)}

\* the fair value gap of kind k on tail position j of a frame whose last position
\* is cur; the edges that get_signal scales (bull bottom, bear top) are 2000, so
\* the * 0.999 and * 1.001 stops are the integers 1998 and 2002
FvgTailRow(row, k, j, cur) ==
    CASE k = "bull" ->
           [row EXCEPT !.fvg = 1, !.fvg_top = 2010 + 4 * j, !.fvg_bottom = 2000,
                       !.fvg_mitigated = NaN]
      [] k = "bear" ->
           [row EXCEPT !.fvg = -1, !.fvg_top = 2000, !.fvg_bottom = 1990 - 4 * j,
                       !.fvg_mitigated = NaN]
      [] k = "bullmit" ->
           [row EXCEPT !.fvg = 1, !.fvg_top = 2010 + 4 * j, !.fvg_bottom = 2000,
                       !.fvg_mitigated = cur]
      [] OTHER -> row

\* an old bullish gap around every close of the model
OldFvgRow ==
    [BlankRow EXCEPT !.fvg = 1, !.fvg_top = 2020, !.fvg_bottom = 1000, !.fvg_mitigated = NaN]

\* rows before the FVG lookback window in the long SilverBullet frames
OldRows == 2

\* frames for SilverBullet: the last two rows carry gaps; the long ones start with
\* an old gap that lies outside the lookback of 10
SbFrame(n, k0, k1, c) ==
    Frame(FullColumns,
          [p \in 1..n |->
              IF p = n THEN FvgTailRow([BlankRow EXCEPT !.close = c], k1, 1, n - 1)
              ELSE IF p = n - 1 THEN FvgTailRow(BlankRow, k0, 0, n - 1)
              ELSE IF p = 1 THEN OldFvgRow
              ELSE BlankRow])

SbFrames ==
    {SbFrame(2, k0, k1, c) :
        k0 \in {"none", "bull", "bear", "bullmit"},
        k1 \in {"none", "bull", "bear"},
        c \in {1995, 2000, 2005}}
    \cup {SbFrame(FvgLookback + OldRows, "none", k1, c) :
              k1 \in {"none", "bear"}, c \in {1995, 2005}}

\* 50-row frames on which several strategies can match at once.  The previous
\* candle may carry a bullish order block [1995, 2006] with a bullish BOS, a swing
\* low at 2002 that the current candle sweeps (low 1996, close 2004, volume 30
\* against an average of 11), and a bullish gap [2000, 2010].
ComboPrev(hasOB, hasSweep, hasFVG) ==
    LET r0 == [BlankRow EXCEPT !.close = 2006, !.high = 2010, !.low = 2002]
        r1 == IF hasOB
              THEN [r0 EXCEPT !.ob = 1, !.ob_top = 2006, !.ob_bottom = 1995,
                              !.ob_strength = 50, !.bos = 1, !.structure_level = 2000]
              ELSE r0
        r2 == IF hasSweep THEN [r1 EXCEPT !.swing_hl = -1] ELSE r1
    IN  IF hasFVG THEN [r2 EXCEPT !.fvg = 1, !.fvg_top = 2010, !.fvg_bottom = 2000] ELSE r2

ComboCurr == [BlankRow EXCEPT !.close = 2004, !.high = 2008, !.low = 1996, !.volume = 30]

\* column sets: the analysed frame, frames lacking one indicator column (reading it
\* raises KeyError), and the raw OHLCV frame
ColumnSets ==
    {FullColumns, FullColumns \ {"swing_hl"}, FullColumns \ {"ob_mitigated"}, OhlcvColumns}

ComboFrames ==
    {TailFrame(cols, MinCandles, FALSE, ComboPrev(hasOB, hasSweep, hasFVG), ComboCurr) :
        cols \in ColumnSets, hasOB \in BOOLEAN, hasSweep \in BOOLEAN, hasFVG \in BOOLEAN}

SessionSets == {{}, {"ny_am"}, {"london_open", "ny_pm"}}

StrategyNames == {"OrderBlock", "LiquiditySweep", "SilverBullet"}

InitSB ==
    /\ df \in SbFrames \cup {f \in ComboFrames : f.columns = FullColumns}
    /\ lookback = 0
    /\ cfg \in {[DefaultCfg EXCEPT !.silver_bullet = [sessions |-> ss]] : ss \in SessionSets}
    /\ now = Midnight
    /\ strategies = StrategyManager_init(cfg.active_strategies)
    /\ entry_price = 0
    /\ side = "None"
    /\ details = NoDetails
    /\ ret = NoCall
    /\ prev = NoCall
    /\ ComponentsIdle

\* one call of strategy.get_signal(df, symbol); t is what datetime.now returns
Evaluate(name) ==
    \E t \in Instants :
        /\ now' = t
        /\ ret' = [fn |-> name, val |-> get_signal(name, df, cfg, t)]
        /\ prev' = ret
        /\ UNCHANGED <<df, lookback, cfg, strategies, entry_price, side, details>>
        /\ UNCHANGED componentVars

NextSB == \E name \in StrategyNames : Evaluate(name)

SpecSB == InitSB /\ [][NextSB]_vars

\* C8: each strategy's get_signal is a pure function of its (candles + analysis,
\* symbol) input: two evaluations of the same strategy on the same frame return
\* identical results, whatever the wall clock reads.
C8_PureStrategies ==
    (prev.fn = ret.fn /\ ret.fn \in StrategyNames) => prev.val = ret.val

\* t lies in a configured session window taken as half-open [start, end): the
\* windows are the whole hours 3, 10 and 14
HalfOpenActive(t, sessions) ==
    \/ "london_open" \in sessions /\ t.hour = 3
    \/ "ny_am" \in sessions /\ t.hour = 10
    \/ "ny_pm" \in sessions /\ t.hour = 14

\* an active gap of the last 10 rows contains the current close
GapContainsClose ==
    /\ ~df.isNone /\ len(df) > 0
    /\ \E p \in Trailing(df, FvgLookback) :
          /\ ~isna(iloc(df, p).fvg)
          /\ isna(iloc(df, p).fvg_mitigated) \/ iloc(df, p).fvg_mitigated > len(df) - 1
          /\ iloc(df, p).fvg_bottom <= CurrentClose
          /\ CurrentClose <= iloc(df, p).fvg_top

\* C9: SilverBullet is active at t iff t lies in a configured window taken as
\* half-open [start, end): with a gap around the close it signals at every such
\* t (the start instant included), and it emits no signal at any other t (the end
\* instant, and every t when no session is configured).
C9_HalfOpenWindow ==
    ret.fn = "SilverBullet" =>
        /\ ret.val.side \in {"LONG", "SHORT"} => HalfOpenActive(now, cfg.silver_bullet.sessions)
        /\ (HalfOpenActive(now, cfg.silver_bullet.sessions) /\ GapContainsClose) =>
              ret.val.side \in {"LONG", "SHORT"}

----------------------------------------------------------------------------
(* Specification of StrategyManager.check_signals *)

ActiveLists ==
    {<< >>,
     <<"order_block">>,
     <<"liquidity_sweep", "order_block">>,
     <<"order_block", "liquidity_sweep">>,
     <<"silver_bullet", "liquidity_sweep">>,
     <<"liquidity_sweep", "silver_bullet">>,
     <<"order_block", "liquidity_sweep", "silver_bullet">>,
     <<"silver_bullet", "order_block", "liquidity_sweep">>}

InitMgr ==
    /\ df \in ComboFrames \cup {NoneFrame, Frame(FullColumns, << >>)}
    /\ lookback = 0
    /\ cfg \in {[DefaultCfg EXCEPT !.active_strategies = a,
                                   !.silver_bullet = [sessions |-> ss]] :
                   a \in ActiveLists, ss \in {{}, {"ny_am"}}}
    /\ now = Midnight
    /\ strategies = StrategyManager_init(cfg.active_strategies)
    /\ entry_price = 0
    /\ side = "None"
    /\ details = NoDetails
    /\ ret = NoCall
    /\ prev = NoCall
    /\ ComponentsIdle

\* one call of StrategyManager.check_signals(df, symbol); t is what datetime.now
\* returns inside SilverBulletStrategy
CheckSignals ==
    \E t \in {T(10, 30, 0, 0), T(11, 0, 0, 1)} :
        /\ now' = t
        /\ ret' = [fn |-> "check_signals", val |-> check_signals(strategies, df, cfg, t)]
        /\ UNCHANGED <<df, lookback, cfg, strategies, entry_price, side, details, prev>>
        /\ UNCHANGED componentVars

NextMgr == CheckSignals

SpecMgr == InitMgr /\ [][NextMgr]_vars

\* the class a strategy identifier of the configuration names
ClassOf(id) ==
    CASE id = "order_block" -> "OrderBlock"
      [] id = "liquidity_sweep" -> "LiquiditySweep"
      [] id = "silver_bullet" -> "SilverBullet"

\* the signal get_signal of class name yields now, an exception counting as none
SignalOf(name) ==
    LET sig == get_signal(name, df, cfg, now)
    IN  IF sig.side \in {"LONG", "SHORT"} THEN sig ELSE NoSignal

\* the signal of the first entry of list (class names) that yields one
FirstSignal(list) ==
    LET hits == {i \in 1..Len(list) : SignalOf(list[i]) # NoSignal}
    IN  IF hits = {} THEN NoSignal ELSE SignalOf(list[First(hits)])

\* the configured identifiers, ["order_block"] when none is configured
ConfiguredOrder ==
    LET a == IF cfg.active_strategies = << >> THEN <<"order_block">> ELSE cfg.active_strategies
    IN  [i \in 1..Len(a) |-> ClassOf(a[i])]

\* C1: check_signals returns the signal of the first strategy, in the order the
\* identifiers are listed in active_strategies, that produces a signal, and no
\* signal when none does; with ["liquidity_sweep", "order_block"] and both
\* matching, the returned strategy is LiquiditySweep.
C1_FirstInConfiguredOrder ==
    ret.fn = "check_signals" => ret.val.signal = FirstSignal(ConfiguredOrder)

\* position of class name in self.strategies (0 when absent)
PosOf(name) ==
    IF \E i \in 1..Len(strategies) : strategies[i] = name
    THEN CHOOSE i \in 1..Len(strategies) : strategies[i] = name
    ELSE 0

\* C2: check_signals raises nothing; a strategy that raises counts as no signal:
\* the strategies after it are evaluated as if it had returned none (each one is
\* called unless a strategy before it returned a signal), and the signal returned
\* is that of the first strategy of the list that produces one.
C2_FailureIsNoSignal ==
    ret.fn = "check_signals" =>
        /\ ret.val.signal.side # "EXC"
        /\ ret.val.failed =
             {strategies[i] : i \in {j \in 1..Len(strategies) :
                 /\ InList(strategies[j], ret.val.evaluated)
                 /\ get_signal(strategies[j], df, cfg, now).side = "EXC"}}
        /\ \A i \in 1..Len(strategies) :
              InList(strategies[i], ret.val.evaluated)
                 <=> \A j \in 1..(i - 1) : SignalOf(strategies[j]) = NoSignal
        /\ ret.val.signal = FirstSignal(strategies)

\* C2 witness: a strategy has raised and the signal of a strategy listed after it
\* has been returned.
C2_Witness ==
    /\ ret.fn = "check_signals"
    /\ ret.val.signal.side \in {"LONG", "SHORT"}
    /\ \E f \in ret.val.failed : PosOf(f) < PosOf(ret.val.signal.strategy)

----------------------------------------------------------------------------
(* Specification of LiquiditySweepStrategy.get_signal *)

\* candle shapes <<low, high, close>> around a swing low at 2000 and a swing high
\* at 2020.  Q: away from both levels; D: trades 10 below the swing low and closes
\* back above it; Dn: the same, closing below it; U: trades 10 above the swing high
\* and closes back below it; Un: the same, closing above it; P: dips 1 below the
\* swing low (less than 0.1 %); L: a low at 2000; H: a high at 2020; W: a low at 2008
Candle(sh) ==
    CASE sh = "Q"  -> <<2005, 2015, 2010>>
      [] sh = "D"  -> <<1990, 2015, 2010>>
      [] sh = "Dn" -> <<1990, 2015, 1995>>
      [] sh = "U"  -> <<2005, 2030, 2010>>
      [] sh = "Un" -> <<2005, 2030, 2025>>
      [] sh = "P"  -> <<1999, 2015, 2010>>
      [] sh = "L"  -> <<2000, 2015, 2010>>
      [] sh = "H"  -> <<2005, 2020, 2010>>
      [] sh = "W"  -> <<2008, 2015, 2010>>

\* the row of shape sh with swing_hl = sw and volume = vol
LsRow(sh, sw, vol) ==
    [BlankRow EXCEPT !.low = Candle(sh)[1], !.high = Candle(sh)[2], !.close = Candle(sh)[3],
                     !.swing_hl = sw, !.volume = vol]

\* a tail candle: its shape and its swing mark (only L and H rows are marked)
PrevKinds == {<<"Q", NaN>>, <<"D", NaN>>, <<"U", NaN>>,
              <<"L", NaN>>, <<"L", -1>>, <<"H", NaN>>, <<"H", 1>>}

CurrKinds == PrevKinds \cup {<<"Dn", NaN>>, <<"Un", NaN>>, <<"P", NaN>>}

\* an older row: no swing, a swing low at 2000 or a swing high at 2020
OlderKinds == {<<"Q", NaN>>, <<"L", -1>>, <<"H", 1>>}

\* the oldest marked row: no swing or a swing low at 2008
OldestKinds == {<<"Q", NaN>>, <<"W", -1>>}

\* offsets from the last row of the three older rows that may carry a swing
NearOffset == 3
MidOffset == 5
FarOffset == 8

Volumes == {10, 100}

\* the analysed frame of n rows: quiet candles of volume 10, the older rows a, b, c
\* and the last two rows
LsFrame(n, a, b, c, prv, cur) ==
    Frame(FullColumns,
          [p \in 1..n |->
              IF p = n THEN cur
              ELSE IF p = n - 1 THEN prv
              ELSE IF p = n - NearOffset THEN LsRow(a[1], a[2], 10)
              ELSE IF p = n - MidOffset THEN LsRow(b[1], b[2], 10)
              ELSE IF p = n - FarOffset THEN LsRow(c[1], c[2], 10)
              ELSE LsRow("Q", NaN, 10)])

LsFrames ==
    {LsFrame(n, a, b, c, LsRow(k0[1], k0[2], v0), LsRow(k1[1], k1[2], v1)) :
        n \in {MinCandles, MinCandles + ExtraRows},
        a \in OlderKinds, b \in {<<"Q", NaN>>, <<"H", 1>>}, c \in OldestKinds,
        k0 \in PrevKinds, k1 \in CurrKinds, v0 \in Volumes, v1 \in Volumes}

\* a frame one candle short of the 50 the strategy asks for, with a swept swing low
ShortLsFrame ==
    LsFrame(MinCandles - 1, <<"L", -1>>, <<"Q", NaN>>, <<"Q", NaN>>,
            LsRow("Q", NaN, 10), LsRow("D", NaN, 100))

InitLS ==
    /\ df \in LsFrames \cup {NoneFrame, ShortLsFrame}
    /\ lookback = 0
    /\ cfg \in {[DefaultCfg EXCEPT !.liquidity_sweep = [require_volume |-> rv]] :
                   rv \in BOOLEAN}
    /\ now = Midnight
    /\ strategies = StrategyManager_init(cfg.active_strategies)
    /\ entry_price = 0
    /\ side = "None"
    /\ details = NoDetails
    /\ ret = NoCall
    /\ prev = NoCall
    /\ ComponentsIdle

EvalLiquiditySweep ==
    /\ ret' = [fn |-> "LiquiditySweepStrategy.get_signal",
               val |-> LiquiditySweepStrategy_get_signal(df, cfg)]
    /\ UNCHANGED <<df, lookback, cfg, now, strategies, entry_price, side, details, prev>>
    /\ UNCHANGED componentVars

NextLS == EvalLiquiditySweep

SpecLS == InitLS /\ [][NextLS]_vars

\* positions of the last two candles
LastTwo == {len(df) - 1, len(df) - 2}

\* candle p traded beyond the level of the returned signal
TradedBeyond(p, sig) ==
    IF sig.side = "LONG" THEN iloc(df, p).low < sig.level
    ELSE iloc(df, p).high > sig.level

\* volume of candle p > 1.2 * mean of the trailing 20 volumes
VolumeAboveAverage(p) ==
    iloc(df, p).volume * 10 * volume_count(df)
        > volume_sum(df, len(df) - volume_count(df), len(df) - 1) * 12

\* C11: with require_volume enabled, a signal of LiquiditySweepStrategy implies that
\* a candle among the last two that traded beyond the swept level (the sweep candle,
\* possibly the previous candle) has a volume above 1.2 times the average volume of
\* the trailing 20 candles.
C11_SweepCandleVolume ==
    (/\ ret.fn = "LiquiditySweepStrategy.get_signal"
     /\ ret.val.side \in {"LONG", "SHORT"}
     /\ cfg.liquidity_sweep.require_volume) =>
        \E p \in LastTwo : TradedBeyond(p, ret.val) /\ VolumeAboveAverage(p)

\* the two most recent rows that carry a swing (swing_hl is 1 or -1)
SwingRows == {p \in 0..(len(df) - 1) : iloc(df, p).swing_hl \in {1, -1}}

TwoMostRecentSwings ==
    {p \in SwingRows : Cardinality({q \in SwingRows : q > p}) < 2}

\* swing lows / highs among them whose level the last two candles swept and rejected
SweptLows ==
    {p \in TwoMostRecentSwings :
        iloc(df, p).swing_hl = -1 /\ sweep_long(df, cfg, iloc(df, p).low)}

SweptHighs ==
    {p \in TwoMostRecentSwings :
        iloc(df, p).swing_hl = 1 /\ sweep_short(df, cfg, iloc(df, p).high)}

\* C12: on a frame of at least 50 candles LiquiditySweepStrategy returns LONG iff
\* one of the two most recent swing points of the series is a swing low that the
\* sweep-and-rejection rule accepts, SHORT iff none is and one of them is a swing
\* high the rule accepts, however many rows without a swing follow them.
C12_TwoMostRecentSwingLevels ==
    (/\ ret.fn = "LiquiditySweepStrategy.get_signal"
     /\ ~df.isNone /\ len(df) >= MinCandles) =>
        /\ ret.val.side = "LONG" <=> SweptLows # {}
        /\ ret.val.side = "SHORT" <=> (SweptLows = {} /\ SweptHighs # {})
        /\ ret.val.side = "LONG" => ret.val.level = iloc(df, First(SweptLows)).low
        /\ ret.val.side = "SHORT" => ret.val.level = iloc(df, First(SweptHighs)).high

----------------------------------------------------------------------------
(* Specification of add_atr *)

Abs(x) == IF x < 0 THEN -x ELSE x

\* the column name f"atr_{period}"
atr_column(period) == "atr_" \o ToString(period)

\* tr at position p: pd.concat([tr1, tr2, tr3], axis=1).max(axis=1).  close.shift(1)
\* is NaN at position 0, so tr2 and tr3 are NaN there, and max skips NaN.
true_range(d, p) ==
    LET tr1 == iloc(d, p).high - iloc(d, p).low
    IN  IF p = 0 THEN tr1
        ELSE LET tr2 == Abs(iloc(d, p).high - iloc(d, p - 1).close)
                 tr3 == Abs(iloc(d, p).low - iloc(d, p - 1).close)
             IN  Max(tr1, Max(tr2, tr3))

\* sum of tr over positions lo .. hi
RECURSIVE tr_sum(_, _, _)
tr_sum(d, lo, hi) ==
    IF lo > hi THEN 0 ELSE true_range(d, lo) + tr_sum(d, lo + 1, hi)

\* tr.rolling(window=period).mean() at position p: NaN until the window holds
\* `period` values (min_periods defaults to the window).  The mean is exact on the
\* candles of AtrCandles and kept to whole price units on other frames.
rolling_mean(d, p, period) ==
    IF p + 1 < period THEN NaN
    ELSE tr_sum(d, p - period + 1, p) \div period

\* add_atr(df, period): writes the column into df and returns df
add_atr(d, period) ==
    LET col == atr_column(period)
    IN  [isNone |-> FALSE,
         columns |-> d.columns \cup {col},
         rows |-> [i \in 1..len(d) |->
                     [f \in DOMAIN d.rows[i] \cup {col} |->
                         IF f = col THEN rolling_mean(d, i - 1, period)
                         ELSE d.rows[i][f]]]]

\* candles <<low, high, close>>, multiples of 12 so that every mean over 1..4
\* candles is exact: a range of 24, a flat candle, and two candles that gap away
\* from any previous close of the set
AtrCandles == {<<96, 120, 108>>, <<120, 120, 120>>, <<168, 180, 168>>, <<36, 48, 48>>}

MaxCandles == 4
MaxPeriod == 3

AtrRow(c) == [BlankRow EXCEPT !.low = c[1], !.high = c[2], !.close = c[3]]

AtrFrames ==
    UNION {{Frame(OhlcvColumns, [i \in 1..n |-> AtrRow(cs[i])]) :
               cs \in [1..n -> AtrCandles]} : n \in 0..MaxCandles}

InitAtr ==
    /\ df \in AtrFrames
    /\ lookback = 0
    /\ cfg = DefaultCfg
    /\ now = Midnight
    /\ strategies = StrategyManager_init(cfg.active_strategies)
    /\ entry_price = 0
    /\ side = "None"
    /\ details = NoDetails
    /\ ret = NoCall
    /\ prev = NoCall
    /\ ComponentsIdle

\* df = add_atr(df, period) on a raw frame; ret keeps the period argument
CallAddAtr ==
    \E period \in 1..MaxPeriod :
        /\ df.columns = OhlcvColumns
        /\ df' = add_atr(df, period)
        /\ ret' = [fn |-> "add_atr", period |-> period, val |-> NoSignal]
        /\ UNCHANGED <<lookback, cfg, now, strategies, entry_price, side, details, prev>>
        /\ UNCHANGED componentVars

NextAtr == CallAddAtr

SpecAtr == InitAtr /\ [][NextAtr]_vars

\* the spec's true range: max(high - low, |high - prevClose|, |low - prevClose|),
\* which needs the previous close
SpecTrueRange(p) ==
    Max(iloc(df, p).high - iloc(df, p).low,
        Max(Abs(iloc(df, p).high - iloc(df, p - 1).close),
            Abs(iloc(df, p).low - iloc(df, p - 1).close)))

RECURSIVE SpecTrSum(_, _)
SpecTrSum(lo, hi) == IF lo > hi THEN 0 ELSE SpecTrueRange(lo) + SpecTrSum(lo + 1, hi)

\* C14: after add_atr(df, period) the ATR column is undefined at exactly the
\* positions 0 .. period - 1 and, at every position p >= period, holds the mean over
\* the trailing `period` candles of max(high - low, |high - prevClose|,
\* |low - prevClose|).
C14_AtrUndefinedForFirstPeriod ==
    ret.fn = "add_atr" =>
        \A p \in 0..(len(df) - 1) :
            LET atr == iloc(df, p)[atr_column(ret.period)]
            IN  /\ isna(atr) <=> p < ret.period
                /\ p >= ret.period =>
                     atr * ret.period = SpecTrSum(p - ret.period + 1, p)

----------------------------------------------------------------------------
(* TradeTracker (tracker.py).  Percentages are kept in hundredths of a percent *)
(* and dollar amounts in 1/10000 dollar, the precisions round(x, 2) and       *)
(* round(x, 4) store.                                                         *)

\* round(n / d) to the nearest integer, ties to the even one (Python's round); d > 0
RoundDiv(n, d) ==
    LET q == n \div d
        r == n % d
    IN  IF 2 * r < d THEN q
        ELSE IF 2 * r > d THEN q + 1
        ELSE IF q % 2 = 0 THEN q ELSE q + 1

\* exit_price - entry_price for a LONG, entry_price - exit_price for a SHORT
price_move(sd, entry, exit) == IF sd = "LONG" THEN exit - entry ELSE entry - exit

\* mutation of new_trade: the id is the 0-based position, len(self.trades)
new_trade_zero_based(log, symbol, sd, entry, exit, leverage, margin_used) ==
    [id |-> Len(log),
     symbol |-> symbol, side |-> sd, entry_price |-> entry, exit_price |-> exit,
     leverage |-> leverage, margin_used |-> margin_used,
     pnl_pct |-> RoundDiv(price_move(sd, entry, exit) * 10000 * leverage, entry),
     pnl_usd |-> RoundDiv(margin_used * price_move(sd, entry, exit) * 10000 * leverage, entry),
     is_win |-> margin_used * price_move(sd, entry, exit) * leverage > 0]

\* the trade dict record_trade builds: pnl_pct = move / entry * 100 * leverage,
\* pnl_usd = margin_used * pnl_pct / 100, is_win from the unrounded pnl_usd
new_trade(log, symbol, sd, entry, exit, leverage, margin_used) ==
    [id |-> Len(log) + 1,
     symbol |-> symbol, side |-> sd, entry_price |-> entry, exit_price |-> exit,
     leverage |-> leverage, margin_used |-> margin_used,
     pnl_pct |-> RoundDiv(price_move(sd, entry, exit) * 10000 * leverage, entry),
     pnl_usd |-> RoundDiv(margin_used * price_move(sd, entry, exit) * 10000 * leverage, entry),
     is_win |-> margin_used * price_move(sd, entry, exit) * leverage > 0]

\* "best_trade": None
NoTrade == [symbol |-> "None", pnl_pct |-> NaN, pnl_usd |-> NaN]

EmptyStats ==
    [total_trades |-> 0, wins |-> 0, losses |-> 0, win_rate |-> 0,
     total_pnl_pct |-> 0, total_pnl_usd |-> 0, avg_win_pct |-> 0, avg_loss_pct |-> 0,
     best_trade |-> NoTrade, worst_trade |-> NoTrade, exc |-> FALSE]

\* ZeroDivisionError out of get_stats
StatsError == [EmptyStats EXCEPT !.exc = TRUE]

\* sum(t[field] for t in log) over the entries sel
RECURSIVE sum_field(_, _, _)
sum_field(log, sel, field) ==
    IF sel = {} THEN 0
    ELSE LET i == CHOOSE j \in sel : TRUE
         IN  log[i][field] + sum_field(log, sel \ {i}, field)

\* max(log, key=pnl_pct) / min(log, key=pnl_pct): the first entry with the extreme key
first_max(log) ==
    CHOOSE i \in 1..Len(log) :
        /\ \A j \in 1..Len(log) : log[j].pnl_pct <= log[i].pnl_pct
        /\ \A j \in 1..(i - 1) : log[j].pnl_pct < log[i].pnl_pct

first_min(log) ==
    CHOOSE i \in 1..Len(log) :
        /\ \A j \in 1..Len(log) : log[j].pnl_pct >= log[i].pnl_pct
        /\ \A j \in 1..(i - 1) : log[j].pnl_pct > log[i].pnl_pct

trade_summary(t) == [symbol |-> t.symbol, pnl_pct |-> t.pnl_pct, pnl_usd |-> t.pnl_usd]

\* mutation of stats_of: wins and losses are told apart by the stored (rounded)
\* pnl_usd instead of the is_win flag
stats_of_stored_pnl(log) ==
    LET wins == {i \in 1..Len(log) : log[i].pnl_usd > 0}
        losses == {i \in 1..Len(log) : ~(log[i].pnl_usd > 0)}
        all == 1..Len(log)
    IN  [total_trades |-> Len(log),
         wins |-> Cardinality(wins),
         losses |-> Cardinality(losses),
         win_rate |-> RoundDiv(Cardinality(wins) * 10000, Len(log)),
         total_pnl_pct |-> sum_field(log, all, "pnl_pct"),
         total_pnl_usd |-> sum_field(log, all, "pnl_usd"),
         avg_win_pct |-> IF wins = {} THEN 0
                         ELSE RoundDiv(sum_field(log, wins, "pnl_pct"), Cardinality(wins)),
         avg_loss_pct |-> IF losses = {} THEN 0
                          ELSE RoundDiv(sum_field(log, losses, "pnl_pct"), Cardinality(losses)),
         best_trade |-> trade_summary(log[first_max(log)]),
         worst_trade |-> trade_summary(log[first_min(log)]),
         exc |-> FALSE]

\* the statistics of a non-empty list (tracker.py:149-180)
stats_of(log) ==
    LET wins == {i \in 1..Len(log) : log[i].is_win}
        losses == {i \in 1..Len(log) : ~log[i].is_win}
        all == 1..Len(log)
    IN  [total_trades |-> Len(log),
         wins |-> Cardinality(wins),
         losses |-> Cardinality(losses),
         win_rate |-> RoundDiv(Cardinality(wins) * 10000, Len(log)),
         total_pnl_pct |-> sum_field(log, all, "pnl_pct"),
         total_pnl_usd |-> sum_field(log, all, "pnl_usd"),
         avg_win_pct |-> IF wins = {} THEN 0
                         ELSE RoundDiv(sum_field(log, wins, "pnl_pct"), Cardinality(wins)),
         avg_loss_pct |-> IF losses = {} THEN 0
                          ELSE RoundDiv(sum_field(log, losses, "pnl_pct"), Cardinality(losses)),
         best_trade |-> trade_summary(log[first_max(log)]),
         worst_trade |-> trade_summary(log[first_min(log)]),
         exc |-> FALSE]

\* mutation of get_stats: no "if not self.trades" guard, so the empty list reaches
\* len(wins) / len(self.trades)
get_stats_unguarded(log) == IF log = << >> THEN StatsError ELSE stats_of(log)

\* TradeTracker.get_stats
get_stats(log) == IF log = << >> THEN EmptyStats ELSE stats_of(log)

\* TradeTracker.save with the outcome of the file operations: "ok", "open_fails"
\* (open raises, the file is untouched) or "write_fails" (open(..., "w") has truncated
\* the file and json.dump raises).  Every exception is caught.
save(log, f, outcome) ==
    CASE outcome = "ok" -> [state |-> "ok", trades |-> log]
      [] outcome = "open_fails" -> f
      [] outcome = "write_fails" -> [state |-> "corrupt", trades |-> << >>]

\* TradeTracker.load: the saved list, or [] without a readable file
load(f) == IF f.state = "ok" THEN f.trades ELSE << >>

----------------------------------------------------------------------------
(* Specification of the TradeTracker *)

\* the analysis path, not exercised
AnalysisIdle ==
    /\ df = NoneFrame
    /\ lookback = 0
    /\ cfg = DefaultCfg
    /\ now = Midnight
    /\ strategies = StrategyManager_init(cfg.active_strategies)
    /\ entry_price = 0
    /\ side = "None"
    /\ details = NoDetails
    /\ prev = NoCall

analysisVars == <<df, lookback, cfg, now, strategies, entry_price, side, details, prev>>

\* seq[start:] of Python: a negative start counts from the end, and a start
\* outside the list is clipped to it
slice_from(seq, start) ==
    LET from == IF start < 0 THEN Max(Len(seq) + start, 0) ELSE Min(start, Len(seq))
    IN  SubSeq(seq, from + 1, Len(seq))

\* seq[::-1]
reversed(seq) == [i \in 1..Len(seq) |-> seq[Len(seq) + 1 - i]]

\* TradeTracker.get_recent_trades: self.trades[-n:][::-1]
get_recent_trades(log, n) == reversed(slice_from(log, 0 - n))

\* longest trade list of the model
MaxTrades == 3

\* margin_per_trade of the calls
Margin == 2

\* record_trade arguments <<symbol, side, entry_price, exit_price, leverage>>: gains
\* of 5 %, 3 % and 5 % again, losses of 2 % twice, a flat trade, and a gain of
\* 0.001 % whose rounded pnl_pct and pnl_usd are both 0
TradeInputs ==
    {<<"BTCUSDT", "LONG", 100, 105, 1>>,
     <<"ETHUSDT", "LONG", 100, 98, 1>>,
     <<"SOLUSDT", "LONG", 100, 103, 1>>,
     <<"XRPUSDT", "SHORT", 2000, 1995, 20>>,
     <<"ADAUSDT", "SHORT", 100, 102, 1>>,
     <<"DOGEUSDT", "LONG", 100, 100, 1>>,
     <<"LTCUSDT", "LONG", 100000, 100001, 1>>}

SaveOutcomes == {"ok", "open_fails", "write_fails"}

InitTracker ==
    /\ AnalysisIdle
    /\ ExecutorIdle
    /\ BotIdle
    /\ file \in {[state |-> "absent", trades |-> << >>],
                 [state |-> "corrupt", trades |-> << >>]}
    /\ trades = load(file)
    /\ ret = NoCall

\* TradeTracker.record_trade: build the dict, append it, save
RecordTrade ==
    \E inp \in TradeInputs, outcome \in SaveOutcomes :
        /\ Len(trades) < MaxTrades
        /\ LET trade == new_trade(trades, inp[1], inp[2], inp[3], inp[4], inp[5], Margin)
           IN  /\ trades' = Append(trades, trade)
               /\ ret' = [fn |-> "record_trade", val |-> trade]
        /\ file' = save(trades', file, outcome)
        /\ UNCHANGED <<analysisVars, executorVars, botVars>>

\* TradeTracker.get_stats
GetStats ==
    /\ ret' = [fn |-> "get_stats", val |-> get_stats(trades)]
    /\ UNCHANGED <<analysisVars, executorVars, botVars, trades, file>>

\* TradeTracker.__init__ of a new process on the same file
Restart ==
    /\ trades' = load(file)
    /\ ret' = [fn |-> "__init__", val |-> NoSignal]
    /\ UNCHANGED <<analysisVars, executorVars, botVars, file>>

\* TradeTracker.get_recent_trades(n)
GetRecentTrades ==
    \E n \in 0..(MaxTrades + 1) :
        /\ ret' = [fn |-> "get_recent_trades", n |-> n, val |-> get_recent_trades(trades, n)]
        /\ UNCHANGED <<analysisVars, executorVars, botVars, trades, file>>

NextTracker == RecordTrade \/ GetStats \/ Restart \/ GetRecentTrades

SpecTracker == InitTracker /\ [][NextTracker]_vars

\* C15: get_stats on an empty trade list raises nothing and returns total_trades,
\* wins, losses, win_rate and every other numeric statistic equal to zero, with no
\* best_trade and no worst_trade.
C15_EmptyStatsAllZero ==
    (ret.fn = "get_stats" /\ trades = << >>) =>
        /\ ~ret.val.exc
        /\ ret.val.total_trades = 0 /\ ret.val.wins = 0 /\ ret.val.losses = 0
        /\ ret.val.win_rate = 0
        /\ ret.val.total_pnl_pct = 0 /\ ret.val.total_pnl_usd = 0
        /\ ret.val.avg_win_pct = 0 /\ ret.val.avg_loss_pct = 0
        /\ ret.val.best_trade = NoTrade /\ ret.val.worst_trade = NoTrade

\* C15 witness: statistics have been asked of a tracker whose list is empty because
\* its file could not be read.
C15_Witness ==
    /\ ret.fn = "get_stats"
    /\ trades = << >>
    /\ file.state = "corrupt"
    /\ ret.val.total_trades = 0

\* the profit of a recorded trade is positive: margin * move * leverage > 0
ProfitPositive(t) ==
    t.margin_used * t.leverage
        * (IF t.side = "LONG" THEN t.exit_price - t.entry_price
           ELSE t.entry_price - t.exit_price) > 0

Winners == {i \in 1..Len(trades) : ProfitPositive(trades[i])}

\* pnl_pct of the list, in percent
PnlPcts == [i \in 1..Len(trades) |-> trades[i].pnl_pct]

\* entry i is the first one of the list with the largest / smallest pnl_pct
FirstLargest(i) ==
    /\ \A j \in 1..Len(trades) : trades[j].pnl_pct <= trades[i].pnl_pct
    /\ \A j \in 1..(i - 1) : trades[j].pnl_pct # trades[i].pnl_pct

FirstSmallest(i) ==
    /\ \A j \in 1..Len(trades) : trades[j].pnl_pct >= trades[i].pnl_pct
    /\ \A j \in 1..(i - 1) : trades[j].pnl_pct # trades[i].pnl_pct

C16_WitnessTies ==
    /\ ret.fn = "get_stats"
    /\ Len(trades) = 3
    /\ trades[1].symbol = "LTCUSDT" /\ trades[1].pnl_usd = 0
    /\ trades[2].symbol = "XRPUSDT" /\ trades[3].symbol = "BTCUSDT"
    /\ ret.val.wins = 3
    /\ ret.val.best_trade.symbol = "XRPUSDT"

\* C17: every record_trade call appends exactly one record to the trade log and
\* leaves the earlier records as they were, whether or not its save succeeds, and
\* afterwards the id of every record is its 1-based position in the log.
C17_AppendOnlyLog ==
    [][(ret'.fn = "record_trade" /\ ret' # ret) =>
          /\ Len(trades') = Len(trades) + 1
          /\ SubSeq(trades', 1, Len(trades)) = trades
          /\ \A i \in 1..Len(trades') : trades'[i].id = i]_vars

\* C17 witness: a second record has been appended by a call whose save truncated
\* the file.
C17_Witness ==
    /\ ret.fn = "record_trade"
    /\ Len(trades) >= 2
    /\ file.state = "corrupt"
    /\ trades[Len(trades)] = ret.val

----------------------------------------------------------------------------
(* Specification of the analysis of short candle series *)

\* defaults of calculate_smc
SwingLength == 10
AtrPeriod == 14

\* calculate_smc(df, swing_length): the frame itself when it is None or shorter than
\* swing_length * 2 + 10, otherwise a copy with the ATR and the indicator columns.
\* lib is what the smartmoneyconcepts functions return for the frame.
calculate_smc(d, swing_length, lib) ==
    IF d.isNone \/ len(d) < swing_length * 2 + 10 THEN d
    ELSE LET a == add_atr(d, AtrPeriod)
         IN  [isNone |-> FALSE,
              columns |-> a.columns \cup SmcColumns,
              rows |-> [i \in 1..len(d) |->
                          [f \in DOMAIN a.rows[i] |->
                              IF f \in OhlcvColumns \cup {atr_column(AtrPeriod)}
                              THEN a.rows[i][f]
                              ELSE lib[i][f]]]]

\* outputs of the library on a frame of n rows: any of the combinations of an order
\* block, a swing low and a fair value gap on the previous candle
LibOutputs(n) ==
    {TailFrame(FullColumns, n, FALSE, ComboPrev(hasOB, hasSweep, hasFVG), ComboCurr).rows :
        hasOB \in BOOLEAN, hasSweep \in BOOLEAN, hasFVG \in BOOLEAN}

\* the candles alone of a frame, as get_klines returns them
RawOf(f) ==
    Frame(OhlcvColumns,
          [i \in 1..len(f) |->
              [BlankRow EXCEPT !.close = f.rows[i].close, !.high = f.rows[i].high,
                               !.low = f.rows[i].low, !.volume = f.rows[i].volume]])

\* minimum window of calculate_smc with the default swing length
SmcWindow == SwingLength * 2 + 10

\* series lengths around the two minimum windows (30 and 50)
SeriesLengths ==
    {0, 1, SmcWindow - 1, SmcWindow, MinCandles - 1, MinCandles}

RawFrames ==
    {RawOf(TailFrame(FullColumns, n, FALSE, ComboPrev(FALSE, FALSE, FALSE), ComboCurr)) :
        n \in SeriesLengths}

InitSmc ==
    /\ df \in RawFrames \cup {NoneFrame}
    /\ lookback \in {FvgLookback, 50}
    /\ cfg \in {[DefaultCfg EXCEPT !.active_strategies = a,
                                   !.silver_bullet = [sessions |-> {"ny_am"}]] :
                   a \in {l \in ActiveLists : Len(l) # 2}}
    /\ now = Midnight
    /\ strategies = StrategyManager_init(cfg.active_strategies)
    /\ entry_price = 0
    /\ side = "None"
    /\ details = NoDetails
    /\ ret = NoCall
    /\ prev = NoCall
    /\ ComponentsIdle

\* df = calculate_smc(df) on the candles fetched
CallCalculateSmc ==
    \E lib \in LibOutputs(len(df)) :
        /\ ~df.isNone => df.columns = OhlcvColumns
        /\ df' = calculate_smc(df, SwingLength, lib)
        /\ ret' = [fn |-> "calculate_smc", val |-> NoSignal]
        /\ UNCHANGED <<lookback, cfg, now, strategies, entry_price, side, details, prev>>
        /\ UNCHANGED componentVars

NextSmc ==
    \/ CallCalculateSmc
    \/ CallGetActiveOrderBlocks
    \/ CallGetActiveFvgs
    \/ CallGetLatestStructure
    \/ CheckSignals

SpecSmc == InitSmc /\ [][NextSmc]_vars

\* C18: on a series shorter than a minimum window the outcome is "no signal": with
\* fewer than swing_length * 2 + 10 candles (or no frame) the three queries return
\* their empty results on what calculate_smc hands back, and with fewer than 50
\* candles (or no frame) check_signals returns (None, None) and does not raise.
C18_ShortSeriesNoSignal ==
    /\ (/\ ret.fn \in {"get_active_order_blocks", "get_active_fvgs"}
        /\ (df.isNone \/ len(df) < SmcWindow)) => ret.val = EmptyZones
    /\ (/\ ret.fn = "get_latest_structure"
        /\ (df.isNone \/ len(df) < SmcWindow)) => ret.val = NoStructure
    /\ (/\ ret.fn = "check_signals"
        /\ (df.isNone \/ len(df) < MinCandles)) => ret.val.signal = NoSignal

----------------------------------------------------------------------------
(* MudrexExecutor (executor.py).  Time is counted in ticks, TicksPerHour to the *)
(* hour.  requests holds the exchange calls of the latest place_order call.    *)

BALANCE_COOLDOWN_HOURS == 1

TicksPerHour == 2

\* the terms _is_insufficient_balance_error looks for in str(error).lower()
BalanceTerms == {"insufficient", "balance", "margin", "not enough"}

\* errors the SDK raises: the message and the terms of BalanceTerms it contains
Errors ==
    {[msg |-> "Insufficient balance", terms |-> {"insufficient", "balance"}],
     [msg |-> "Invalid margin type", terms |-> {"margin"}],
     [msg |-> "Rate limit exceeded", terms |-> {}]}

NoError == [msg |-> "", terms |-> {}]

is_insufficient_balance_error(e) == e.terms \cap BalanceTerms # {}

\* is_in_cooldown at time clk: (in_cooldown, minutes_remaining) and the value it
\* leaves in _balance_cooldown_until (an expired cooldown is cleared)
is_in_cooldown(until, clk) ==
    IF isna(until) THEN [in_cooldown |-> FALSE, minutes_remaining |-> 0, until |-> NaN]
    ELSE IF clk < until
    THEN [in_cooldown |-> TRUE,
          minutes_remaining |-> ((until - clk) * 60) \div TicksPerHour,
          until |-> until]
    ELSE [in_cooldown |-> FALSE, minutes_remaining |-> 0, until |-> NaN]

\* mutation of activate_cooldown: the cooldown lasts an hour too long
activate_cooldown_two_hours(clk) == clk + (BALANCE_COOLDOWN_HOURS + 1) * TicksPerHour

\* activate_cooldown at time clk: the new _balance_cooldown_until
activate_cooldown(clk) == clk + BALANCE_COOLDOWN_HOURS * TicksPerHour

Request(kind, clk, ok) == [kind |-> kind, at |-> clk, ok |-> ok]

\* mutation of set_sltp: a failed take-profit call ends the attempts
set_sltp_stops_at_tp(s, clk) ==
    IF s.list = "raises" THEN <<Request("list_open", clk, FALSE)>>
    ELSE IF s.list = "no_position" THEN <<Request("list_open", clk, TRUE)>>
    ELSE IF s.both THEN <<Request("list_open", clk, TRUE), Request("sltp", clk, TRUE)>>
    ELSE IF ~s.tp
    THEN <<Request("list_open", clk, TRUE), Request("sltp", clk, FALSE),
           Request("tp", clk, FALSE)>>
    ELSE <<Request("list_open", clk, TRUE), Request("sltp", clk, FALSE),
           Request("tp", clk, TRUE), Request("sl", clk, s.sl)>>

\* _set_sltp: list the positions, then set_risk_order with both prices and, when
\* that raises, with the take-profit and with the stop-loss separately.  s tells
\* how the calls end; every exception is caught.
set_sltp(s, clk) ==
    IF s.list = "raises" THEN <<Request("list_open", clk, FALSE)>>
    ELSE IF s.list = "no_position" THEN <<Request("list_open", clk, TRUE)>>
    ELSE IF s.both THEN <<Request("list_open", clk, TRUE), Request("sltp", clk, TRUE)>>
    ELSE <<Request("list_open", clk, TRUE), Request("sltp", clk, FALSE),
           Request("tp", clk, s.tp), Request("sl", clk, s.sl)>>

NoOrder == [placed |-> FALSE, symbol |-> "None", side |-> "None"]

Order(symbol, sd) == [placed |-> TRUE, symbol |-> symbol, side |-> sd]

\* the exchange calls of calculate_position_size: the asset lookup, whose failure
\* is caught
sizing_calls(o, clk) == <<Request("asset", clk, o.asset)>>

\* what place_order does once past the cooldown test: the exchange calls it sends,
\* the order it returns and the error it caught (NoError when none)
attempt_order(args, o, clk) ==
    IF ~args.has_price /\ ~o.price
    THEN [sent |-> << >>, order |-> NoOrder, error |-> NoError]
    ELSE IF o.fail = "sizing"
    THEN [sent |-> sizing_calls(o, clk), order |-> NoOrder, error |-> o.error]
    ELSE IF ~args.has_levels
    THEN [sent |-> sizing_calls(o, clk), order |-> NoOrder,
          error |-> [msg |-> "unsupported format string", terms |-> {}]]
    ELSE IF o.fail = "leverage"
    THEN [sent |-> sizing_calls(o, clk) \o <<Request("leverage", clk, FALSE)>>,
          order |-> NoOrder, error |-> o.error]
    ELSE IF o.fail = "order"
    THEN [sent |-> sizing_calls(o, clk)
                     \o <<Request("leverage", clk, TRUE), Request("order", clk, FALSE)>>,
          order |-> NoOrder, error |-> o.error]
    ELSE [sent |-> sizing_calls(o, clk)
                     \o <<Request("leverage", clk, TRUE), Request("order", clk, TRUE)>>
                     \o set_sltp(o.sltp, clk),
          order |-> Order(args.symbol, args.side), error |-> NoError]

\* mutation of place_order: the cooldown is looked up but not acted upon
place_order_no_cooldown_test(until, clk, later, args, o) ==
    LET cd == is_in_cooldown(until, clk)
        a == attempt_order(args, o, clk)
    IN  [until |-> IF is_insufficient_balance_error(a.error)
                   THEN activate_cooldown(later) ELSE cd.until,
         sent |-> a.sent, order |-> a.order, error |-> a.error, skipped |-> FALSE]

\* place_order called at time clk; an error is handled at time later >= clk.
\* Returns the new _balance_cooldown_until, the calls sent, the order (or None),
\* the exception caught (NoError when none) and whether the call was skipped
\* for the cooldown.
place_order(until, clk, later, args, o) ==
    LET cd == is_in_cooldown(until, clk)
    IN  IF cd.in_cooldown
        THEN [until |-> cd.until, sent |-> << >>, order |-> NoOrder, error |-> NoError,
              skipped |-> TRUE]
        ELSE LET a == attempt_order(args, o, clk)
             IN  [until |-> IF is_insufficient_balance_error(a.error)
                            THEN activate_cooldown(later) ELSE cd.until,
                  sent |-> a.sent, order |-> a.order, error |-> a.error,
                  skipped |-> FALSE]

----------------------------------------------------------------------------
(* Specification of the MudrexExecutor *)

\* last tick of the clock
MaxClock == 5

SltpOutcomes ==
    {[list |-> "raises", both |-> FALSE, tp |-> FALSE, sl |-> FALSE],
     [list |-> "no_position", both |-> FALSE, tp |-> FALSE, sl |-> FALSE],
     [list |-> "found", both |-> TRUE, tp |-> FALSE, sl |-> FALSE]}
    \cup {[list |-> "found", both |-> FALSE, tp |-> a, sl |-> b] : a, b \in BOOLEAN}

\* how the calls of one place_order end: the price lookup (price), the asset lookup
\* (asset), the stage that raises (fail) with its error, and the SL/TP calls
Outcomes ==
    {[price |-> p, asset |-> TRUE, fail |-> "none", error |-> NoError, sltp |-> s] :
        p \in BOOLEAN, s \in SltpOutcomes}
    \cup {[price |-> TRUE, asset |-> a, fail |-> f, error |-> e,
           sltp |-> [list |-> "raises", both |-> FALSE, tp |-> FALSE, sl |-> FALSE]] :
             a \in BOOLEAN, f \in {"sizing", "leverage", "order"}, e \in Errors}

\* place_order arguments: entry_price given or not, tp and sl given or None
OrderArgs ==
    {[symbol |-> "BTCUSDT", side |-> "LONG", has_price |-> hp, has_levels |-> hl] :
        hp \in BOOLEAN, hl \in BOOLEAN}
    \cup {[symbol |-> "ETHUSDT", side |-> "SHORT", has_price |-> TRUE, has_levels |-> TRUE]}

InitExec ==
    /\ AnalysisIdle
    /\ TrackerIdle
    /\ BotIdle
    /\ ExecutorIdle
    /\ ret = NoCall

\* time passes
Tick ==
    /\ clock < MaxClock
    /\ clock' = clock + 1
    /\ UNCHANGED <<analysisVars, trackerVars, botVars, cooldown_until, requests, ret>>

\* the number of place_order calls so far, modulo 2
Parity == IF ret.fn = "place_order" THEN ret.n ELSE 0

\* MudrexExecutor.place_order; the call returns at time later
PlaceOrder ==
    \E args \in OrderArgs, o \in Outcomes, later \in {clock, clock + 1} :
        /\ later <= MaxClock
        /\ LET r == place_order(cooldown_until, clock, later, args, o)
           IN  /\ cooldown_until' = r.until
               /\ requests' = r.sent
               /\ ret' = [fn |-> "place_order", val |-> r.order, n |-> 1 - Parity,
                          error |-> r.error, skipped |-> r.skipped]
        /\ clock' = later
        /\ UNCHANGED <<analysisVars, trackerVars, botVars>>

\* MudrexExecutor.is_in_cooldown
IsInCooldown ==
    /\ LET cd == is_in_cooldown(cooldown_until, clock)
       IN  /\ cooldown_until' = cd.until
           /\ ret' = [fn |-> "is_in_cooldown",
                      val |-> [in_cooldown |-> cd.in_cooldown,
                               minutes_remaining |-> cd.minutes_remaining]]
    /\ UNCHANGED <<analysisVars, trackerVars, botVars, clock, requests>>

NextExec == Tick \/ PlaceOrder \/ IsInCooldown

SpecExec == InitExec /\ [][NextExec]_vars

\* is_in_cooldown() would return true now
CooldownActive == ~isna(cooldown_until) /\ clock < cooldown_until

OrderKinds == {"leverage", "order", "sltp", "tp", "sl"}

\* C19: a place_order call made while the balance cooldown is active sends no
\* leverage, market-order or SL/TP request to the exchange and returns no order.
C19_NoOrdersDuringCooldown ==
    [][(CooldownActive /\ ret'.fn = "place_order" /\ ret' # ret) =>
          /\ \A i \in 1..Len(requests') : requests'[i].kind \notin OrderKinds
          /\ ret'.val = NoOrder]_vars

\* C19 witness: place_order has returned None without any exchange call while the
\* cooldown is active (a call that found no price leaves no cooldown behind, and a
\* call that activated the cooldown has sent its calls first).
C19_Witness ==
    /\ ret.fn = "place_order"
    /\ CooldownActive
    /\ requests = << >>
    /\ ret.val = NoOrder

----------------------------------------------------------------------------
(* bot.py: SMCTradingBot.scan_symbol and scan_all_symbols *)

\* scan_symbol asks get_klines for 200 candles and analyses 100 or more
KlinesLimit == 200
MinKlines == 100

\* what get_klines returns: None (request failed, API error, empty list,
\* market_data.py:62-94) or a frame of that many candles
KlinesOutcomes == {NaN, MinKlines - 1, MinKlines, KlinesLimit}

\* what a check_long_signal / check_short_signal call does: it raises, or it
\* returns (signal, details) with details a dict or None
CheckOutcomes == {"raises", "no_signal", "signal", "signal_without_details"}

\* what one scan of a symbol meets: the frame get_klines returns and what the
\* calls on self.strategy do with it
ScanOutcomes ==
    {[klines |-> k, analyze |-> "ok", long |-> "no_signal", short |-> "no_signal"] :
        k \in KlinesOutcomes \ {KlinesLimit}}
    \cup {[klines |-> MinKlines, analyze |-> "raises", long |-> "no_signal",
           short |-> "no_signal"]}
    \cup {[klines |-> MinKlines, analyze |-> "ok", long |-> l, short |-> "no_signal"] :
            l \in CheckOutcomes \ {"no_signal"}}
    \cup {[klines |-> KlinesLimit, analyze |-> "ok", long |-> l, short |-> s] :
            l \in {"no_signal", "signal"}, s \in {"raises", "signal"}}
    \cup {[klines |-> KlinesLimit, analyze |-> "ok", long |-> "no_signal",
           short |-> "signal_without_details"]}

\* the get_klines call of scan_symbol
KlinesCall(symbol) == [kind |-> "get_klines", symbol |-> symbol, limit |-> KlinesLimit]

\* mutation of scan_symbol_try: the short signal is looked at first
scan_symbol_try_short_first(symbol, o) ==
    LET none == [side |-> "None", details |-> "None", raised |-> FALSE,
                 calls |-> <<KlinesCall(symbol)>>]
        exc == [none EXCEPT !.raised = TRUE]
    IN  IF o.klines = NaN \/ o.klines < MinKlines THEN none
        ELSE IF o.analyze = "raises" \/ o.long = "raises" \/ o.short = "raises" THEN exc
        ELSE IF o.short = "signal_without_details" THEN exc
        ELSE IF o.short = "signal" THEN [none EXCEPT !.side = "SHORT", !.details = symbol]
        ELSE IF o.long = "signal_without_details" THEN exc
        ELSE IF o.long = "signal" THEN [none EXCEPT !.side = "LONG", !.details = symbol]
        ELSE none

\* the body of scan_symbol's try block; raised: an exception leaves it.
\* details is the "symbol" key scan_symbol adds to the strategy's dict.
scan_symbol_try(symbol, o) ==
    LET none == [side |-> "None", details |-> "None", raised |-> FALSE,
                 calls |-> <<KlinesCall(symbol)>>]
        exc == [none EXCEPT !.raised = TRUE]
    IN  IF o.klines = NaN \/ o.klines < MinKlines THEN none
        ELSE IF o.analyze = "raises" THEN exc
        ELSE IF o.long = "raises" THEN exc
        ELSE IF o.short = "raises" THEN exc
        ELSE IF o.long = "signal_without_details" THEN exc
        ELSE IF o.long = "signal" THEN [none EXCEPT !.side = "LONG", !.details = symbol]
        ELSE IF o.short = "signal_without_details" THEN exc
        ELSE IF o.short = "signal" THEN [none EXCEPT !.side = "SHORT", !.details = symbol]
        ELSE none

\* scan_symbol whose exceptions reach the caller
scan_symbol_uncaught(symbol, o) ==
    LET r == scan_symbol_try(symbol, o)
    IN  [side |-> r.side, details |-> r.details, raised |-> r.raised,
         error |-> r.raised, calls |-> r.calls]

\* SMCTradingBot.scan_symbol: except Exception returns (None, None); error
\* tells that the except branch ran
scan_symbol(symbol, o) ==
    LET r == scan_symbol_try(symbol, o)
    IN  [side |-> IF r.raised THEN "None" ELSE r.side,
         details |-> IF r.raised THEN "None" ELSE r.details,
         raised |-> FALSE, error |-> r.raised, calls |-> r.calls]

\* what the scan of one symbol met and returned
ScanEntry(symbol, o, r) ==
    [symbol |-> symbol, klines |-> o.klines, error |-> r.error,
     both |-> o.long = "signal" /\ o.short = "signal",
     fetches |-> Len(r.calls), side |-> r.side]

\* the for loop of scan_all_symbols from position i on (the sleep between two
\* symbols changes no state); an exception leaving scan_symbol leaves the loop
RECURSIVE scan_loop(_, _, _, _)
scan_loop(syms, i, met, log) ==
    IF i > Len(syms)
    THEN [log |-> log, raised |-> FALSE, symbol |-> "None", side |-> "None",
          details |-> "None"]
    ELSE LET r == scan_symbol(syms[i], met[syms[i]])
             l == Append(log, ScanEntry(syms[i], met[syms[i]], r))
         IN  IF r.raised
             THEN [log |-> l, raised |-> TRUE, symbol |-> "None", side |-> "None",
                   details |-> "None"]
             ELSE IF r.side # "None"
             THEN [log |-> l, raised |-> FALSE, symbol |-> syms[i], side |-> r.side,
                   details |-> r.details]
             ELSE scan_loop(syms, i + 1, met, l)

\* SMCTradingBot.scan_all_symbols
scan_all_symbols(syms, met) == scan_loop(syms, 1, met, << >>)

----------------------------------------------------------------------------
(* The scanning bot *)

\* self.symbols: what _fetch_tradeable_symbols returned
SymbolLists ==
    {<< >>, <<"BTCUSDT">>, <<"ETHUSDT", "BTCUSDT">>, <<"BTCUSDT", "ETHUSDT", "SOLUSDT">>}

InitScan ==
    /\ AnalysisIdle
    /\ TrackerIdle
    /\ ExecutorIdle
    /\ symbols \in SymbolLists
    /\ scans = << >>
    /\ LoopIdle
    /\ ret = NoCall

\* one call of scan_symbol
ScanSymbol ==
    \E i \in 1..Len(symbols), o \in ScanOutcomes :
        LET r == scan_symbol(symbols[i], o)
        IN  /\ scans' = <<ScanEntry(symbols[i], o, r)>>
            /\ ret' = [fn |-> "scan_symbol", raised |-> r.raised, symbol |-> symbols[i],
                       side |-> r.side, details |-> r.details]
            /\ UNCHANGED <<analysisVars, trackerVars, executorVars, symbols, loopVars>>

\* one call of scan_all_symbols
ScanAllSymbols ==
    \E met \in [{symbols[i] : i \in 1..Len(symbols)} -> ScanOutcomes] :
        LET r == scan_all_symbols(symbols, met)
        IN  /\ scans' = r.log
            /\ ret' = [fn |-> "scan_all_symbols", raised |-> r.raised,
                       symbol |-> r.symbol, side |-> r.side, details |-> r.details]
            /\ UNCHANGED <<analysisVars, trackerVars, executorVars, symbols, loopVars>>

NextScan == ScanSymbol \/ ScanAllSymbols

SpecScan == InitScan /\ [][NextScan]_vars

\* the scan met a failed fetch, a frame of fewer than 100 candles or an error
\* in the analysis
ScanFailed(e) == e.klines = NaN \/ e.klines < MinKlines \/ e.error

\* C20: a scan that meets a failed fetch, fewer than 100 candles or an error in
\* the analysis returns no signal after one get_klines call and raises nothing,
\* the executor has sent nothing and holds no cooldown, and scan_all_symbols
\* has scanned the symbol after it
C20_FailedScanSkipsSymbol ==
    ret.fn \in {"scan_symbol", "scan_all_symbols"} =>
        \A i \in 1..Len(scans) :
            ScanFailed(scans[i]) =>
                /\ scans[i].side = "None"
                /\ scans[i].fetches = 1
                /\ ~ret.raised
                /\ ExecutorIdle
                /\ ret.fn = "scan_all_symbols" /\ i < Len(symbols) =>
                    /\ Len(scans) > i
                    /\ scans[i + 1].symbol = symbols[i + 1]

\* scan_all_symbols went past a failed fetch, a short frame and an analysis
\* error, in some order, and the scan after them found a signal
C20_Witness ==
    /\ ret.fn = "scan_all_symbols"
    /\ Len(scans) = Len(symbols)
    /\ \E i \in 1..Len(scans) : scans[i].error /\ i < Len(scans)
    /\ \E i \in 1..Len(scans) : scans[i].klines = NaN \/ scans[i].klines = MinKlines - 1
    /\ ret.side = "SHORT"

\* a step that is one call of place_order
PlaceOrderStep == ret'.fn = "place_order" /\ ret' # ret

\* a step that is one call of is_in_cooldown (a repeated call may leave ret as
\* it is)
IsInCooldownStep == ret'.fn = "is_in_cooldown" /\ clock' = clock /\ requests' = requests

\* one hour, in ticks
CooldownTicks == BALANCE_COOLDOWN_HOURS * TicksPerHour

SignalScans == {i \in 1..Len(scans) : scans[i].side # "None"}

\* C22: scan_all_symbols scans the symbols in their order and stops at the
\* first scan that returns a signal, which it returns with that symbol; a scan
\* that met a long and a short signal returns LONG; the result is
\* (None, None, None) exactly when every symbol was scanned without a signal.
C22_FirstSignalInOrder ==
    (ret.fn = "scan_all_symbols" /\ ~ret.raised) =>
        /\ Len(scans) <= Len(symbols)
        /\ \A i \in 1..Len(scans) : scans[i].symbol = symbols[i]
        /\ \A i \in 1..Len(scans) : scans[i].both => scans[i].side = "LONG"
        /\ SignalScans \subseteq {Len(scans)}
        /\ SignalScans # {} =>
            /\ ret.symbol = scans[Len(scans)].symbol
            /\ ret.side = scans[Len(scans)].side
            /\ ret.details = ret.symbol
        /\ SignalScans = {} =>
            /\ Len(scans) = Len(symbols)
            /\ ret.symbol = "None" /\ ret.side = "None" /\ ret.details = "None"

\* C22 witness: the second of three symbols met a long and a short signal and
\* scan_all_symbols returned its LONG signal
C22_Witness ==
    /\ ret.fn = "scan_all_symbols"
    /\ Len(symbols) > Len(scans)
    /\ Len(scans) > 1
    /\ scans[Len(scans)].both
    /\ ret.side = "LONG"

\* the k most recent trades of the log, newest first
NewestFirst(k) == [i \in 1..k |-> trades[Len(trades) + 1 - i]]

\* C23: get_recent_trades(n), n >= 0, returns the min(n, number of trades)
\* most recent trades, newest first (nothing for n = 0), and leaves the trade
\* log and its file as they are.
C23_RecentTrades ==
    [][(ret'.fn = "get_recent_trades" /\ ret' # ret) =>
          /\ ret'.val = NewestFirst(Min(ret'.n, Len(trades)))
          /\ trades' = trades
          /\ file' = file]_vars

----------------------------------------------------------------------------
(* executor.py: close_position; bot.py: monitor_positions *)

\* config["mudrex"]["leverage"], the executor's default
Leverage == 20

\* how the calls of one close_position end: the position lookup (raises, finds
\* no position, finds it), positions.close and the reverse market order
CloseOutcomes ==
    {[find |-> f, close |-> FALSE, reverse |-> FALSE] : f \in {"raises", "none"}}
    \cup {[find |-> "found", close |-> TRUE, reverse |-> FALSE]}
    \cup {[find |-> "found", close |-> FALSE, reverse |-> r] : r \in BOOLEAN}

\* MudrexExecutor.close_position: the value returned and the exchange calls sent
close_position(o, clk) ==
    IF o.find = "raises"
    THEN [ok |-> FALSE, sent |-> <<Request("list_open", clk, FALSE)>>]
    ELSE IF o.find = "none"
    THEN [ok |-> FALSE, sent |-> <<Request("list_open", clk, TRUE)>>]
    ELSE IF o.close
    THEN [ok |-> TRUE,
          sent |-> <<Request("list_open", clk, TRUE), Request("close", clk, TRUE)>>]
    ELSE [ok |-> o.reverse,
          sent |-> <<Request("list_open", clk, TRUE), Request("close", clk, FALSE),
                     Request("reduce_order", clk, o.reverse)>>]

\* one entry of current_positions
Position(symbol, sd, entry, tp, sl) ==
    [symbol |-> symbol, side |-> sd, entry_price |-> entry, tp |-> tp, sl |-> sl]

\* mutation of exit_reason: a price equal to a level does not hit it
exit_reason_strict(pos, price) ==
    IF pos.side = "LONG"
    THEN IF price > pos.tp THEN "TP" ELSE IF price < pos.sl THEN "SL" ELSE "none"
    ELSE IF price < pos.tp THEN "TP" ELSE IF price > pos.sl THEN "SL" ELSE "none"

\* the TP/SL test of monitor_positions on an available price: "TP", "SL" or
\* "none" (should_close stays False)
exit_reason(pos, price) ==
    IF pos.side = "LONG"
    THEN IF price >= pos.tp THEN "TP" ELSE IF price <= pos.sl THEN "SL" ELSE "none"
    ELSE IF price <= pos.tp THEN "TP" ELSE IF price >= pos.sl THEN "SL" ELSE "none"

\* the record record_trade appends for a closed position
closed_trade(log, pos, price, reason) ==
    new_trade(log, pos.symbol, pos.side, pos.entry_price, price, Leverage, Margin)
        @@ [exit_reason |-> reason]

\* a call of the bot on its executor
Call(fn, symbol, ok) == [fn |-> fn, symbol |-> symbol, ok |-> ok]

\* the first loop of monitor_positions from the i-th position on; env holds what
\* the calls meet: the price of each symbol (NaN: get_current_price returned
\* None), the outcome of each save and of each close_position.  st carries the
\* trade log, the file, the executor calls, the exchange calls and to_close.
RECURSIVE monitor_loop(_, _, _, _, _, _)
monitor_loop(positions, i, dry, clk, env, st) ==
    IF i > Len(positions) THEN st
    ELSE LET pos == positions[i]
             price == env.price[pos.symbol]
             reason == IF isna(price) THEN "none" ELSE exit_reason(pos, price)
         IN  IF reason = "none" THEN monitor_loop(positions, i + 1, dry, clk, env, st)
             ELSE LET log == Append(st.trades, closed_trade(st.trades, pos, price, reason))
                      c == close_position(env.close[pos.symbol], clk)
                  IN  monitor_loop(positions, i + 1, dry, clk, env,
                        [trades |-> log,
                         file |-> save(log, st.file, env.save),
                         calls |-> IF dry THEN st.calls
                                   ELSE Append(st.calls, Call("close_position", pos.symbol, c.ok)),
                         sent |-> IF dry THEN st.sent ELSE st.sent \o c.sent,
                         to_close |-> st.to_close \cup {pos.symbol}])

\* SMCTradingBot.monitor_positions: the positions left, the trade log, the file,
\* the executor calls and the exchange calls
monitor_positions(positions, dry, clk, env, log, f) ==
    LET st == monitor_loop(positions, 1, dry, clk, env,
                  [trades |-> log, file |-> f, calls |-> << >>, sent |-> << >>,
                   to_close |-> {}])
    IN  [positions |-> SelectSeq(positions, LAMBDA p : p.symbol \notin st.to_close),
         trades |-> st.trades, file |-> st.file, calls |-> st.calls, sent |-> st.sent]

----------------------------------------------------------------------------
(* Specification of monitor_positions *)

\* prices of the model: below, between and above the levels
LowPrice == 90
MidPrice == 100
HighPrice == 110

\* get_current_price: None or the last price
Prices == {NaN, LowPrice, MidPrice, HighPrice}

\* the positions a symbol can have: entered at MidPrice with the levels on their
\* sides of the entry, or with take-profit and stop-loss crossed
PositionsOf(symbol) ==
    {Position(symbol, sd, MidPrice, tp, sl) :
        sd \in {"LONG", "SHORT"}, tp \in {LowPrice, HighPrice}, sl \in {LowPrice, HighPrice}}
    \ {Position(symbol, "LONG", MidPrice, LowPrice, LowPrice),
       Position(symbol, "LONG", MidPrice, HighPrice, HighPrice),
       Position(symbol, "SHORT", MidPrice, LowPrice, LowPrice),
       Position(symbol, "SHORT", MidPrice, HighPrice, HighPrice)}

\* the symbols of a list of positions
Held(positions) == {positions[i].symbol : i \in 1..Len(positions)}

\* what one monitor_positions call meets
MonitorEnvs(positions, dry) ==
    [price : [Held(positions) -> Prices],
     close : IF dry THEN {[s \in Held(positions) |-> CHOOSE o \in CloseOutcomes : o.close]}
             ELSE [Held(positions) -> CloseOutcomes],
     save : SaveOutcomes]

InitMonitor ==
    /\ AnalysisIdle
    /\ TrackerIdle
    /\ ExecutorIdle
    /\ symbols = <<"BTCUSDT", "ETHUSDT">>
    /\ scans = << >>
    /\ \E a \in PositionsOf("BTCUSDT"), b \in PositionsOf("ETHUSDT") :
          current_positions \in {<<a>>, <<a, b>>, <<b, a>>}
    /\ dry_run \in BOOLEAN
    /\ max_positions = Len(symbols)
    /\ pc = "idle"
    /\ calls = << >>
    /\ ret = NoCall

\* one call of monitor_positions
MonitorPositions ==
    /\ current_positions # << >>
    /\ \E env \in MonitorEnvs(current_positions, dry_run) :
        LET r == monitor_positions(current_positions, dry_run, clock, env, trades, file)
        IN  /\ current_positions' = r.positions
            /\ trades' = r.trades
            /\ file' = r.file
            /\ calls' = r.calls
            /\ requests' = r.sent
            /\ ret' = [fn |-> "monitor_positions", price |-> env.price]
    /\ UNCHANGED <<analysisVars, cooldown_until, clock, symbols, scans, dry_run,
                   max_positions, pc>>

NextMonitor == MonitorPositions

SpecMonitor == InitMonitor /\ [][NextMonitor]_vars

\* the level a position has hit at a price: the take-profit first, then the
\* stop-loss; "none" without a price or without a hit
LevelHit(pos, price) ==
    IF isna(price) THEN "none"
    ELSE IF pos.side = "LONG" /\ price >= pos.tp THEN "TP"
    ELSE IF pos.side = "LONG" /\ price <= pos.sl THEN "SL"
    ELSE IF pos.side = "SHORT" /\ price <= pos.tp THEN "TP"
    ELSE IF pos.side = "SHORT" /\ price >= pos.sl THEN "SL"
    ELSE "none"

\* the positions of a list that have hit a level at the prices of a call
HitPositions(positions, price) ==
    SelectSeq(positions, LAMBDA p : LevelHit(p, price[p.symbol]) # "none")

\* C28: monitor_positions removes exactly the positions whose price is
\* available and has hit a level, leaves the others as they are and in their
\* order, and appends one trade record for each removed position, in order,
\* with its symbol, side, entry, the price as exit and TP or SL as the reason.
C28_MonitorClosesHits ==
    [][ret'.fn = "monitor_positions" =>
        LET hit == HitPositions(current_positions, ret'.price)
        IN  /\ current_positions' =
                 SelectSeq(current_positions,
                           LAMBDA p : LevelHit(p, ret'.price[p.symbol]) = "none")
            /\ Len(trades') = Len(trades) + Len(hit)
            /\ SubSeq(trades', 1, Len(trades)) = trades
            /\ \A i \in 1..Len(hit) :
                 LET t == trades'[Len(trades) + i]
                 IN  /\ t.symbol = hit[i].symbol
                     /\ t.side = hit[i].side
                     /\ t.entry_price = hit[i].entry_price
                     /\ t.exit_price = ret'.price[hit[i].symbol]
                     /\ t.exit_reason = LevelHit(hit[i], t.exit_price)]_vars

\* C28 witness: of two positions, one with crossed levels was closed at a price
\* that meets both of them, with reason TP, and the other, without a price, is
\* still tracked
C28_Witness ==
    /\ ret.fn = "monitor_positions"
    /\ Len(current_positions) = 1
    /\ isna(ret.price[current_positions[1].symbol])
    /\ Len(trades) = 1
    /\ trades[1].exit_reason = "TP"
    /\ trades[1].exit_price = MidPrice

\* C29: in live mode monitor_positions removes a position and records its
\* trade only if close_position returned True for its symbol; a position whose
\* close failed stays tracked, unchanged, and no trade is recorded for it.
C29_LiveCloseOnlyOnSuccess ==
    [][(ret'.fn = "monitor_positions" /\ ~dry_run) =>
        LET closed == {calls'[i].symbol : i \in {j \in 1..Len(calls') : calls'[j].ok}}
        IN  /\ \A i \in 1..Len(current_positions) :
                 current_positions[i].symbol \notin closed =>
                    \E j \in 1..Len(current_positions') :
                        current_positions'[j] = current_positions[i]
            /\ \A i \in (Len(trades) + 1)..Len(trades') : trades'[i].symbol \in closed]_vars

----------------------------------------------------------------------------
(* bot.py: execute_signal and the loop of run *)

\* the (tp, sl) pair calculate_tp_sl returns for an entry at MidPrice
SignalLevels(sd) ==
    IF sd = "LONG" THEN [tp |-> HighPrice, sl |-> LowPrice]
    ELSE [tp |-> LowPrice, sl |-> HighPrice]

\* self.current_positions[symbol] = pos: a held symbol keeps its place
set_position(positions, pos) ==
    IF pos.symbol \in Held(positions)
    THEN [i \in 1..Len(positions) |->
            IF positions[i].symbol = pos.symbol THEN pos ELSE positions[i]]
    ELSE Append(positions, pos)

\* mutation of execute_signal: the order is placed in dry-run mode too
execute_signal_always_live(positions, dry, until, clk, symbol, sd, o) ==
    LET lv == SignalLevels(sd)
        pos == Position(symbol, sd, MidPrice, lv.tp, lv.sl)
        args == [symbol |-> symbol, side |-> sd, has_price |-> TRUE, has_levels |-> TRUE]
        r == place_order(until, clk, clk, args, o)
    IN  [positions |-> IF r.order # NoOrder THEN set_position(positions, pos) ELSE positions,
         until |-> r.until, sent |-> r.sent,
         calls |-> <<Call("place_order", symbol, r.order # NoOrder)>>]

\* SMCTradingBot.execute_signal: the positions, the executor's cooldown, the
\* exchange calls and the executor calls it leaves
execute_signal(positions, dry, until, clk, symbol, sd, o) ==
    LET lv == SignalLevels(sd)
        pos == Position(symbol, sd, MidPrice, lv.tp, lv.sl)
        args == [symbol |-> symbol, side |-> sd, has_price |-> TRUE, has_levels |-> TRUE]
        r == place_order(until, clk, clk, args, o)
    IN  IF dry
        THEN [positions |-> set_position(positions, pos), until |-> until,
              sent |-> << >>, calls |-> << >>]
        ELSE [positions |-> IF r.order # NoOrder THEN set_position(positions, pos)
                            ELSE positions,
              until |-> r.until, sent |-> r.sent,
              calls |-> <<Call("place_order", symbol, r.order # NoOrder)>>]

\* mutation of at_capacity: one position more is let in
at_capacity_strict(positions, max) == Len(positions) > max

\* run: len(self.current_positions) >= self.max_positions
at_capacity(positions, max) == Len(positions) >= max

\* mutation of act_on_signal: a held symbol is not skipped
act_on_signal_unchecked(positions, dry, until, clk, sig, o) ==
    IF sig.symbol = "None" \/ sig.side = "None"
    THEN [positions |-> positions, until |-> until, sent |-> << >>, calls |-> << >>]
    ELSE execute_signal(positions, dry, until, clk, sig.symbol, sig.side, o)

\* run: what follows scan_all_symbols; sig is the (symbol, side, details) it
\* returned
act_on_signal(positions, dry, until, clk, sig, o) ==
    IF sig.symbol = "None" \/ sig.side = "None"
    THEN [positions |-> positions, until |-> until, sent |-> << >>, calls |-> << >>]
    ELSE IF sig.symbol \in Held(positions)
    THEN [positions |-> positions, until |-> until, sent |-> << >>, calls |-> << >>]
    ELSE execute_signal(positions, dry, until, clk, sig.symbol, sig.side, o)

----------------------------------------------------------------------------
(* Specification of the main loop.  pc is the statement run() executes next: *)
(* the monitoring at the top of the loop, the scan, the handling of its      *)
(* result, or the sleep that ends the cycle.                                 *)

\* largest max_positions of the model
MaxPositions == 2

\* longest trade log of the model
MaxClosed == 2

\* what the scan of a symbol meets in a cycle: no signal, a long or a short one
CycleScanOutcomes ==
    {o \in ScanOutcomes :
        /\ o.klines = MinKlines
        /\ o.analyze = "ok"
        /\ o.short = "no_signal"
        /\ o.long \in {"no_signal", "signal"}}
    \cup {o \in ScanOutcomes : o.long = "no_signal" /\ o.short = "signal"}

\* how the place_order of a cycle ends: an order, a balance error, another error
CycleOrderOutcomes ==
    {o \in Outcomes :
        /\ o.price /\ o.asset
        /\ o.fail \in {"none", "order"}
        /\ o.fail = "none" => (o.sltp.list = "found" /\ o.sltp.both)
        /\ o.fail = "order" => o.error.terms # {"margin"}}

\* what the monitor_positions of a cycle meets: no price or HighPrice for each
\* held symbol, a close that succeeds or finds no position, a save that succeeds
CycleMonitorEnvs(positions, dry) ==
    [price : [Held(positions) -> {NaN, HighPrice}],
     close : IF dry THEN {[s \in Held(positions) |-> CHOOSE o \in CloseOutcomes : o.close]}
             ELSE [Held(positions) -> {o \in CloseOutcomes : o.close \/ o.find = "none"}],
     save : {"ok"}]

InitLoop ==
    /\ AnalysisIdle
    /\ TrackerIdle
    /\ ExecutorIdle
    /\ symbols = <<"ETHUSDT", "BTCUSDT">>
    /\ scans = << >>
    /\ current_positions = << >>
    /\ dry_run \in BOOLEAN
    /\ max_positions \in 1..MaxPositions
    /\ pc = "monitor"
    /\ calls = << >>
    /\ ret = NoCall

\* the top of the loop: monitor_positions when a position is held, then the
\* test for max_positions
LoopMonitor ==
    /\ pc = "monitor"
    /\ Len(trades) + Len(current_positions) <= MaxClosed
    /\ \E env \in CycleMonitorEnvs(current_positions, dry_run) :
        LET r == IF current_positions # << >>
                 THEN monitor_positions(current_positions, dry_run, clock, env, trades, file)
                 ELSE [positions |-> current_positions, trades |-> trades, file |-> file,
                       calls |-> << >>, sent |-> requests]
        IN  /\ current_positions' = r.positions
            /\ trades' = r.trades
            /\ file' = r.file
            /\ calls' = r.calls
            /\ requests' = r.sent
            /\ ret' = [fn |-> "monitor_positions", price |-> env.price]
            /\ pc' = IF at_capacity(r.positions, max_positions) THEN "sleep" ELSE "scan"
    /\ UNCHANGED <<analysisVars, cooldown_until, clock, symbols, scans, dry_run,
                   max_positions>>

\* symbol, side, details = self.scan_all_symbols()
LoopScan ==
    /\ pc = "scan"
    /\ \E met \in [{symbols[i] : i \in 1..Len(symbols)} -> CycleScanOutcomes] :
        LET r == scan_all_symbols(symbols, met)
        IN  /\ scans' = r.log
            /\ ret' = [fn |-> "scan_all_symbols", raised |-> r.raised,
                       symbol |-> r.symbol, side |-> r.side, details |-> r.details,
                       met |-> met]
    /\ pc' = "act"
    /\ calls' = << >>
    /\ UNCHANGED <<analysisVars, trackerVars, executorVars, symbols, current_positions,
                   dry_run, max_positions>>

\* if symbol and side: ... self.execute_signal(symbol, side, details)
LoopAct ==
    /\ pc = "act"
    /\ \E o \in CycleOrderOutcomes :
        LET r == act_on_signal(current_positions, dry_run, cooldown_until, clock, ret, o)
        IN  /\ current_positions' = r.positions
            /\ cooldown_until' = r.until
            /\ requests' = r.sent
            /\ calls' = r.calls
    /\ pc' = "sleep"
    /\ UNCHANGED <<analysisVars, trackerVars, clock, symbols, scans, dry_run,
                   max_positions, ret>>

\* time.sleep(check_interval_seconds), shorter than a tick of the clock
LoopSleep ==
    /\ pc = "sleep"
    /\ pc' = "monitor"
    /\ UNCHANGED <<analysisVars, trackerVars, executorVars, symbols, scans,
                   current_positions, dry_run, max_positions, calls, ret>>

NextLoop == LoopMonitor \/ LoopScan \/ LoopAct \/ LoopSleep

SpecLoop == InitLoop /\ [][NextLoop]_vars

\* C24: in dry-run mode no step of the loop calls the executor's place_order
\* or close_position, and no exchange call is sent: whatever the cycles open
\* and close, the executor is as it was constructed.
C24_DryRunNeverCallsExecutor ==
    dry_run =>
        /\ calls = << >>
        /\ requests = << >>
        /\ isna(cooldown_until)

\* C24 witness: a dry-run bot has closed one position, recorded its trade and
\* holds another position
C24_Witness ==
    /\ dry_run
    /\ Len(trades) > 0
    /\ current_positions # << >>
    /\ pc = "sleep"

\* C25: the bot never holds more than max_positions positions, and it scans
\* and acts on a signal only in a cycle in which, after the monitoring, fewer
\* than max_positions are held.
C25_NeverAboveMaxPositions ==
    /\ Len(current_positions) <= max_positions
    /\ pc \in {"scan", "act"} => Len(current_positions) < max_positions

\* C25 witness: with max_positions held, the cycle has gone from the
\* monitoring straight to its sleep
C25_Witness ==
    /\ Len(current_positions) = max_positions
    /\ max_positions > 1
    /\ pc = "sleep"
    /\ ret.fn = "monitor_positions"

\* C26: a step of the loop adds at most one position, only when it handles the
\* result of a scan, after which the cycle sleeps, and only for a symbol that
\* is not held; in live mode only when place_order returned an order for that
\* symbol; a position that is still held after a step is as it was before.
C26_OnePositionPerCycle ==
    [][/\ Len(current_positions') <= Len(current_positions) + 1
       /\ \A i \in 1..Len(current_positions) :
            current_positions[i].symbol \in Held(current_positions') =>
                \E j \in 1..Len(current_positions') :
                    current_positions'[j] = current_positions[i]
       /\ Held(current_positions') \ Held(current_positions) # {} =>
            /\ pc = "act" /\ pc' = "sleep"
            /\ Len(current_positions') = Len(current_positions) + 1
            /\ ~dry_run =>
                 /\ Len(calls') = 1
                 /\ calls'[1].fn = "place_order"
                 /\ calls'[1].ok
                 /\ calls'[1].symbol \in Held(current_positions') \ Held(current_positions)
       /\ \A i \in 1..Len(current_positions'), j \in 1..Len(current_positions') :
            current_positions'[i].symbol = current_positions'[j].symbol => i = j]_vars

\* C26 witness: a live bot holding one position met a signal for the held
\* symbol, to the other side, and left the position as it was
C26_Witness ==
    /\ ~dry_run
    /\ pc = "sleep"
    /\ ret.fn = "scan_all_symbols"
    /\ ret.symbol \in Held(current_positions)
    /\ \E i \in 1..Len(current_positions) :
         /\ current_positions[i].symbol = ret.symbol
         /\ current_positions[i].side # ret.side
    /\ calls = << >>

\* the symbols without a position whose scan yields a signal in the cycle whose
\* scan has returned
FreeSignals ==
    {s \in {symbols[i] : i \in 1..Len(symbols)} :
        /\ s \notin Held(current_positions)
        /\ scan_symbol(s, ret.met[s]).side # "None"}

\* C27: when a dry-run cycle handles the result of its scan with fewer than
\* max_positions positions held and some symbol without a position yields a
\* signal, the cycle opens a position; a signal on a held symbol does not keep
\* a later symbol's signal from being acted on.
C27_FreeSignalOpensPosition ==
    [][(pc = "act" /\ pc' = "sleep" /\ dry_run
          /\ Len(current_positions) < max_positions
          /\ FreeSignals # {})
        => Len(current_positions') = Len(current_positions) + 1]_vars

\* the positions of the requests of a kind among the calls of a place_order
RequestsOf(sent, kind) == {i \in 1..Len(sent) : sent[i].kind = kind}

\* the market order of the calls was created
OrderCreated(sent) == \E i \in RequestsOf(sent, "order") : sent[i].ok

\* C30: place_order sets the leverage before it creates the market order and
\* touches SL/TP only after the order was created; once it was created the
\* call returns the order, has caught no error and leaves the cooldown as
\* is_in_cooldown left it; the combined SL/TP call comes before the separate
\* ones, which follow exactly when it failed, the TP call first and the SL call
\* after it whether or not the TP call succeeded.
C30_OrderThenStops ==
    [][PlaceOrderStep =>
        LET sent == requests'
            stops == RequestsOf(sent, "list_open") \cup RequestsOf(sent, "sltp")
                        \cup RequestsOf(sent, "tp") \cup RequestsOf(sent, "sl")
        IN  /\ \A j \in RequestsOf(sent, "order") :
                 \E i \in RequestsOf(sent, "leverage") : i < j /\ sent[i].ok
            /\ \A k \in stops : \E j \in RequestsOf(sent, "order") : j < k /\ sent[j].ok
            /\ OrderCreated(sent) =>
                 /\ ret'.val # NoOrder
                 /\ ret'.error = NoError
                 /\ cooldown_until' = is_in_cooldown(cooldown_until, clock).until
            /\ \A j \in RequestsOf(sent, "sltp") :
                 IF sent[j].ok
                 THEN RequestsOf(sent, "tp") = {} /\ RequestsOf(sent, "sl") = {}
                 ELSE \E a \in RequestsOf(sent, "tp"), b \in RequestsOf(sent, "sl") :
                        j < a /\ a < b
            /\ \A a \in RequestsOf(sent, "tp") \cup RequestsOf(sent, "sl") :
                 \E j \in RequestsOf(sent, "sltp") : j < a /\ ~sent[j].ok]_vars

\* C30 witness: place_order returned its order although the combined SL/TP
\* call and the TP call failed; the SL call was made and succeeded
C30_Witness ==
    /\ ret.fn = "place_order"
    /\ ret.val # NoOrder
    /\ isna(cooldown_until)
    /\ \E j \in RequestsOf(requests, "sltp") : ~requests[j].ok
    /\ \E a \in RequestsOf(requests, "tp") : ~requests[a].ok
    /\ \E b \in RequestsOf(requests, "sl") : requests[b].ok

====
